---- MODULE Spec2Model ----
(***************************************************************************)
(* A model of the CellFlow artifact store and stack-type registry          *)
(* (src/src/memory.py, src/src/tiffstack.py, src/src/Defaults.py).         *)
(* Paths are strings relative to main_path; a file's content is an         *)
(* abstract array or config value.                                         *)
(***************************************************************************)
EXTENDS Integers, Sequences, FiniteSets, TLC

\* ------------------------------------------------------------------ bounds
MaxSaves == 4          \* save calls in one run of the sequential store
MaxProbeIndex == 2     \* highest index of a file created or deleted by hand
MaxFiles == 3          \* files present at once in the probing model
MaxRaceCalls == 3      \* save calls started by the concurrent writers
MaxTagIndex == 730     \* largest index handed to number_to_tag
MaxRegEvents == 4      \* registry operations in one run of the registry model
MaxRegRaceCalls == 3   \* save_type calls started by the concurrent processes
MaxPairs == 2          \* frame pairs of a field handed to combine_flows
MaxSide == 2           \* height and width of such a field
MaxFrames == 3         \* frames of the stack calculate_optical_flow runs on
MaxFlowTag == 11       \* highest flow index n of a source tag f<n>
MaxLetterIndex == 27   \* highest trajectory index whose name is compared
MaxLoopIndex == 6      \* cap on the loop variable of get_unique_path
MaxLoadEvents == 3     \* constructions and direct storage calls in one history
MaxHandles == 3        \* configs load_params hands out in one history

Names == {"s1", "s2"}           \* stack names
FTags == {"f0", "f1"}           \* tags of the flow files a trajectory comes from
VFlags == {"f", "t"}            \* flags of a vector video
Arrs == {1, 2}                  \* abstract array contents
Writers == {"w1", "w2"}         \* concurrent processes saving artifacts
StackTypes == {"ta", "tb"}      \* stack-type names
FramePixels == {1, 2}           \* pixel values of the 1 x 1 input frames
Objs == {"o1", "o2"}            \* TiffStack objects alive in one process

VARIABLES
    files,      \* the files under main_path: path -> content
    dirs,       \* the directories under main_path
    log,        \* history: one record per path returned inside a save call
    pc,         \* writer -> "idle" | "saving" (between probe and np.save)
    req,        \* writer -> the save call in progress
    ret,        \* writer -> the path get_unique_path returned to it
    last,       \* the last direct get_unique_path call: [pat, path] or NoCall
    since,      \* "none" while the tree is as that call left it, else "changed"
    tagIn,      \* the index handed to number_to_tag
    tagOut,     \* its result, or NoTag before the call
    rootExists, \* main_path.exists()
    typesState, \* types.json: "missing" | "ok"
    types,      \* the JSON document in types.json: stack type -> config
    defaults,   \* the compiled-in defaults of Defaults.py
    objs,       \* the TiffStack objects of the running process
    regLog,     \* history: the registry operations, in order
    typesWrites,\* history: every open(types_path, 'w'), in order
    rpc,        \* process -> "idle" | "loaded" | "read" (inside save_type)
    rreq,       \* process -> the registry call in progress
    rrLog,      \* history: the save_type calls that returned, in order
    cfIn,       \* the flow_list handed to combine_flows
    cfOut,      \* what combine_flows returned or raised, or NoOut
    pfIn,       \* the (frame, kwargs) argument of preprocess_frame
    pfOut,      \* the frame preprocess_frame returned, or NoOut
    plStage,    \* calculate_optical_flow: "idle" | "pre" | "flow" | "done"
                \*   | "failed" (an exception left the method)
    plChan,     \* the channel_idx of the compute_flow_for_channel in progress
    plArr,      \* self.arr, of shape (N, 3, 1, 1)
    plArgs,     \* [process_args, flow_args] of the run
    plTasks,    \* <<channel, kind, i>> -> [status, result] of a pool task
    plOrder,    \* the tasks of plChan in the order in which they finished
    plProcessed,\* what preprocess_stack returned for plChan, or NoOut
    plFlows,    \* channel -> what optical_flow returned, or NoOut
    plRet,      \* what calculate_optical_flow returned, or NoOut
    gpc,        \* get_unique_path step by step: "idle" | "probing" | "returned"
    gpat,       \* the naming function of that call
    gi,         \* the loop variable i of that call
    ldLog,      \* history: constructor and save calls with their outcome
    heap,       \* the dict objects of the process, by identity
    handles,    \* caller -> the dict load_params returned, as key -> identity
    cliIn,      \* a command invocation: options, prompts answered, directories
    cliOut      \* what the command echoed and how it ended, or NoOut

storeVars == <<files, dirs, log, pc, req, ret, last, since>>
tagVars == <<tagIn, tagOut>>
regRest == <<typesState, types, defaults, objs, regLog, typesWrites>>
regVars ==
    <<rootExists, typesState, types, defaults, objs, regLog, typesWrites>>
rrVars == <<rpc, rreq, rrLog>>
pipeVars ==
    <<plStage, plChan, plArr, plArgs, plTasks, plOrder, plProcessed, plFlows,
      plRet>>
flowVars == <<cfIn, cfOut, pfIn, pfOut, pipeVars>>
loopVars == <<gpc, gpat, gi>>
aliasVars == <<heap, handles>>
cliVars == <<cliIn, cliOut>>
extraVars == <<loopVars, ldLog, aliasVars, cliVars>>
vars ==
    <<files, dirs, log, pc, req, ret, last, since, tagIn, tagOut,
      rootExists, typesState, types, defaults, objs, regLog, typesWrites,
      rpc, rreq, rrLog, cfIn, cfOut, pfIn, pfOut,
      plStage, plChan, plArr, plArgs, plTasks, plOrder, plProcessed, plFlows,
      plRet, gpc, gpat, gi, ldLog, heap, handles, cliIn, cliOut>>

NoPat == [fn |-> "none", name |-> "", tag |-> ""]
NoCall == [pat |-> NoPat, path |-> "none"]
NoReq == [op |-> "none", arr |-> 0]
NoTag == "-"

\* ------------------------------------------------------- memory.py: naming
Letters ==
    <<"a", "b", "c", "d", "e", "f", "g", "h", "i", "j", "k", "l", "m",
      "n", "o", "p", "q", "r", "s", "t", "u", "v", "w", "x", "y", "z">>

\* chr(ord('a') + d)
chr_a(d) == Letters[d + 1]

\* One pass of the while True loop of number_to_tag.
RECURSIVE tag_loop(_, _)
tag_loop(tag, number) ==
    LET t == chr_a(number % 26) \o tag
        n == number \div 26
    IN  IF n = 0 THEN t ELSE tag_loop(t, n)

\* A slip that forgets to accumulate: tag = chr(...) instead of chr(...) + tag.
number_to_tag_last(number) == chr_a(number % 26)

number_to_tag(number) == tag_loop("", number)

\* The naming functions handed to get_unique_path, as records:
\* [fn, name, tag]; tag is the ftag of a trajectory or the flag of a video.
FlowPat(name) == [fn |-> "flow", name |-> name, tag |-> ""]
TrajPat(name, ftag) == [fn |-> "trajectory", name |-> name, tag |-> ftag]
OrigVideoPat(name) == [fn |-> "video_o", name |-> name, tag |-> ""]
VecVideoPat(name, flag) == [fn |-> "video_v", name |-> name, tag |-> flag]

Pats ==
    {FlowPat(n) : n \in Names} \cup {TrajPat(n, t) : n \in Names, t \in FTags}
    \cup {OrigVideoPat(n) : n \in Names}
    \cup {VecVideoPat(n, f) : n \in Names, f \in VFlags}

\* The file_type argument each caller passes with its naming function.
file_type(pat) ==
    CASE pat.fn = "flow" -> "flow"
      [] pat.fn = "trajectory" -> "trajectory"
      [] OTHER -> "video"

\* The trajectory naming function without the source tag.
pattern_fn_notag(pat, i) ==
    CASE pat.fn = "flow" -> pat.name \o "_f" \o ToString(i) \o ".npy"
      [] pat.fn = "trajectory" ->
            pat.name \o "_t" \o number_to_tag(i) \o ".npy"
      [] pat.fn = "video_o" -> pat.name \o "_vo_" \o ToString(i) \o ".mp4"
      [] OTHER -> pat.name \o "_v" \o pat.tag \o "_" \o ToString(i) \o ".mp4"

\* A naming function that ignores its index.
pattern_fn_fixed(pat, i) == pat.name \o "_0"

\* The lambdas: f"{name}_f{i}.npy", f"{name}_t{ftag}{number_to_tag(i)}.npy",
\* f"{name}_vo_{i}.mp4", f"{name}_v{flag}_{i}.mp4".
pattern_fn(pat, i) ==
    CASE pat.fn = "flow" -> pat.name \o "_f" \o ToString(i) \o ".npy"
      [] pat.fn = "trajectory" ->
            pat.name \o "_t" \o pat.tag \o number_to_tag(i) \o ".npy"
      [] pat.fn = "video_o" -> pat.name \o "_vo_" \o ToString(i) \o ".mp4"
      [] OTHER -> pat.name \o "_v" \o pat.tag \o "_" \o ToString(i) \o ".mp4"

\* main_path / name / file_type
save_dir(name, ftype) == name \o "/" \o ftype

\* save_dir.mkdir(parents=True, exist_ok=True)
mkdir_parents(ds, name, ftype) == ds \cup {name, save_dir(name, ftype)}

\* get_unique_path without the existence probe: always the first candidate.
get_unique_path_noprobe(name, ftype, pat, fs) ==
    save_dir(name, ftype) \o "/" \o pattern_fn(pat, 0)

\* get_unique_path probing from index 1.
get_unique_path_from1(name, ftype, pat, fs) ==
    LET probe[i \in Nat] ==
            LET file_path == save_dir(name, ftype) \o "/" \o pattern_fn(pat, i)
            IN  IF file_path \notin DOMAIN fs THEN file_path ELSE probe[i + 1]
    IN  probe[1]

\* get_unique_path that allocates the index after the highest one in use.
get_unique_path_after_last(name, ftype, pat, fs) ==
    LET used == {i \in 0..(2 * Cardinality(DOMAIN fs) + 4) :
                    save_dir(name, ftype) \o "/" \o pattern_fn(pat, i)
                        \in DOMAIN fs}
        top == IF used = {} THEN 0
               ELSE 1 + CHOOSE i \in used : \A j \in used : j <= i
    IN  save_dir(name, ftype) \o "/" \o pattern_fn(pat, top)

\* The path get_unique_path returns against the files fs: the while True loop.
get_unique_path(name, ftype, pat, fs) ==
    LET probe[i \in Nat] ==
            LET file_path == save_dir(name, ftype) \o "/" \o pattern_fn(pat, i)
            IN  IF file_path \notin DOMAIN fs THEN file_path ELSE probe[i + 1]
    IN  probe[0]

\* np.save(file_path, arr): creates the file or replaces its content.
np_save(fs, file_path, arr) ==
    [q \in DOMAIN fs \cup {file_path} |-> IF q = file_path THEN arr ELSE fs[q]]

\* ------------------------------------------- Defaults.py and JSON values
\* A Python tuple, a Python list, and the JSON array both are written as.
PyTuple(items) == [py |-> "tuple", items |-> items]
PyList(items) == [py |-> "list", items |-> items]
JsArray(items) == [py |-> "array", items |-> items]

\* Defaults.py as it stands in the source (floats kept as their literals).
default_process ==
    [gauss |-> [ksize |-> PyTuple(<<5, 5>>), sigmaX |-> "1.5"],
     median |-> [ksize |-> 5],
     normalize |-> [alpha |-> 0, beta |-> 255, norm_type |-> "NORM_MINMAX"],
     flags |-> PyList(<<"laplace">>)]

default_flow ==
    [pyr_scale |-> "0.5", levels |-> 3, winsize |-> 15, iterations |-> 3,
     poly_n |-> 5, poly_sigma |-> "1.2", flag |-> 0]

default_trajectory == <<>>

DefaultsSource ==
    [process |-> default_process, flow |-> default_flow,
     trajectory |-> default_trajectory]

\* Defaults.py after a later edit of its values.
DefaultsEdited ==
    [process |-> [default_process EXCEPT !.median = [ksize |-> 7]],
     flow |-> [default_flow EXCEPT !.winsize = 21],
     trajectory |-> default_trajectory]

DefaultsChoices == {DefaultsSource, DefaultsEdited}

\* A config a tuning workflow hands to save_type.
TunedParams ==
    [process |-> [default_process EXCEPT !.gauss = [ksize |-> PyTuple(<<3, 3>>),
                                                    sigmaX |-> "1.0"]],
     flow |-> [default_flow EXCEPT !.levels = 5],
     trajectory |-> default_trajectory]

NoParams == [none |-> TRUE]
NoUsed == [none |-> TRUE]
NoObj ==
    [phase |-> "none", stacktype |-> "", name |-> "", params |-> NoParams,
     used |-> NoUsed]

\* json.dump of one config: tuples and lists are both written as arrays.
json_dump(params) ==
    [params EXCEPT !.process.gauss.ksize = JsArray(@.items),
                   !.process.flags = JsArray(@.items)]

\* json.load of one config: arrays are read back as lists.
json_load(doc) ==
    [doc EXCEPT !.process.gauss.ksize = PyList(@.items),
                !.process.flags = PyList(@.items)]

\* json.dump(types, f) and json.load(f) of the whole registry.
json_dump_types(types_py) == [t \in DOMAIN types_py |-> json_dump(types_py[t])]
json_load_types(doc) == [t \in DOMAIN doc |-> json_load(doc[t])]

\* load_params that ignores the registry and always hands out the defaults.
load_params_defaults(stacktype, doc, dflt) ==
    [process |-> dflt.process, flow |-> dflt.flow,
     trajectory |-> dflt.trajectory]

\* load_params(stacktype) against the document doc and the defaults dflt.
load_params(stacktype, doc, dflt) ==
    LET types_py == json_load_types(doc)
    IN  IF stacktype \notin DOMAIN types_py
        THEN [process |-> dflt.process, flow |-> dflt.flow,
              trajectory |-> dflt.trajectory]
        ELSE types_py[stacktype]

\* save_type that writes the document back without the new entry.
save_type_lost(stacktype, params, doc) ==
    json_dump_types(json_load_types(doc))

\* save_type(stacktype, params): the document written back to types.json.
save_type(stacktype, params, doc) ==
    LET types_py == json_load_types(doc)
        updated == [t \in DOMAIN types_py \cup {stacktype} |->
                        IF t = stacktype THEN params ELSE types_py[t]]
    IN  json_dump_types(updated)

\* dict.get(key, default)
dict_get(d, key, dflt) == IF key \in DOMAIN d THEN d[key] ELSE dflt

\* The entry of a registry document, or NoParams.
StoredOf(doc, stacktype) ==
    IF stacktype \in DOMAIN doc THEN doc[stacktype] ELSE NoParams

RegInit ==
    /\ rootExists = FALSE
    /\ typesState = "missing"
    /\ types = <<>>
    /\ defaults = DefaultsSource
    /\ objs = [o \in Objs |-> NoObj]
    /\ regLog = <<>>
    /\ typesWrites = <<>>

\* ------------------------------------------- the store, one call at a time
StoreInit ==
    /\ files = <<>>
    /\ dirs = {}
    /\ log = <<>>
    /\ pc = [w \in Writers |-> "idle"]
    /\ req = [w \in Writers |-> NoReq]
    /\ ret = [w \in Writers |-> "none"]
    /\ last = NoCall
    /\ since = "none"

TagIdle == tagIn = 0 /\ tagOut = NoTag

NoRReq ==
    [op |-> "none", stacktype |-> "", name |-> "", params |-> NoParams,
     doc |-> <<>>]

RRIdle ==
    /\ rpc = [w \in Writers |-> "idle"]
    /\ rreq = [w \in Writers |-> NoRReq]
    /\ rrLog = <<>>

NoOut == [none |-> TRUE]

CombineIdle == cfIn = <<>> /\ cfOut = NoOut

PreIdle == pfIn = <<>> /\ pfOut = NoOut

PipeIdle ==
    /\ plStage = "idle"
    /\ plChan = 0
    /\ plArr = NoOut
    /\ plArgs = NoOut
    /\ plTasks = <<>>
    /\ plOrder = <<>>
    /\ plProcessed = NoOut
    /\ plFlows = <<>>
    /\ plRet = NoOut

FlowIdle == CombineIdle /\ PreIdle /\ PipeIdle

LoopIdle == gpc = "idle" /\ gpat = NoPat /\ gi = 0

LoadIdle == ldLog = <<>>

AliasIdle == heap = <<>> /\ handles = <<>>

CliIdle == cliIn = NoOut /\ cliOut = NoOut

ExtraIdle == LoopIdle /\ LoadIdle /\ AliasIdle /\ CliIdle

\* The history record of a path returned inside a save call.
LogEntry(op, name, pat, file_path, arr) ==
    [op |-> op, name |-> name, pat |-> pat, path |-> file_path, arr |-> arr]

\* save_flow as one call: get_unique_path, then np.save at the returned path.
save_flow(name, arr) ==
    LET file_path == get_unique_path(name, "flow", FlowPat(name), files)
    IN  /\ Len(log) < MaxSaves
        /\ dirs' = mkdir_parents(dirs, name, "flow")
        /\ files' = np_save(files, file_path, arr)
        /\ log' = Append(log, LogEntry("save_flow", name, FlowPat(name),
                                       file_path, arr))
        /\ UNCHANGED <<pc, req, ret, last, since>>
        /\ UNCHANGED tagVars
        /\ UNCHANGED extraVars
        /\ UNCHANGED flowVars
        /\ UNCHANGED rrVars
        /\ rootExists' = TRUE
        /\ UNCHANGED regRest

\* save_trajectory as one call.
save_trajectory(name, ftag, arr) ==
    LET file_path ==
            get_unique_path(name, "trajectory", TrajPat(name, ftag), files)
    IN  /\ Len(log) < MaxSaves
        /\ dirs' = mkdir_parents(dirs, name, "trajectory")
        /\ files' = np_save(files, file_path, arr)
        /\ log' = Append(log, LogEntry("save_trajectory", name,
                                       TrajPat(name, ftag), file_path, arr))
        /\ UNCHANGED <<pc, req, ret, last, since>>
        /\ UNCHANGED tagVars
        /\ UNCHANGED extraVars
        /\ UNCHANGED flowVars
        /\ UNCHANGED rrVars
        /\ rootExists' = TRUE
        /\ UNCHANGED regRest

StoreNext ==
    \/ \E name \in Names, arr \in Arrs : save_flow(name, arr)
    \/ \E name \in Names, ftag \in FTags, arr \in Arrs :
            save_trajectory(name, ftag, arr)

InitStore == StoreInit /\ TagIdle /\ RegInit /\ RRIdle /\ FlowIdle /\ ExtraIdle

SpecStore == InitStore /\ [][StoreNext]_vars

\* ------------------------------------- the store under direct probing
\* The naming functions probed directly, and the files a user or another
\* program may create or delete by hand.
ProbePats ==
    {FlowPat("s1"), TrajPat("s1", "f0"), OrigVideoPat("s1"),
     VecVideoPat("s1", "f")}

Candidates ==
    {save_dir(pat.name, file_type(pat)) \o "/" \o pattern_fn(pat, i) :
        pat \in ProbePats, i \in 0..MaxProbeIndex}

\* A get_unique_path that reserves the path it returns by creating the file.
get_unique_path_call_touch(pat) ==
    LET file_path == get_unique_path(pat.name, file_type(pat), pat, files)
    IN  /\ dirs' = mkdir_parents(dirs, pat.name, file_type(pat))
        /\ last' = [pat |-> pat, path |-> file_path]
        /\ since' = "none"
        /\ files' = np_save(files, file_path, 1)
        /\ UNCHANGED <<log, pc, req, ret>>
        /\ UNCHANGED tagVars
        /\ UNCHANGED extraVars
        /\ UNCHANGED flowVars
        /\ UNCHANGED rrVars
        /\ rootExists' = TRUE
        /\ UNCHANGED regRest

\* A direct call get_unique_path(name, file_type, pattern_fn): it creates the
\* directory and returns a path; it writes no file.
get_unique_path_call(pat) ==
    LET file_path == get_unique_path(pat.name, file_type(pat), pat, files)
    IN  /\ dirs' = mkdir_parents(dirs, pat.name, file_type(pat))
        /\ last' = [pat |-> pat, path |-> file_path]
        /\ since' = "none"
        /\ UNCHANGED <<files, log, pc, req, ret>>
        /\ UNCHANGED tagVars
        /\ UNCHANGED extraVars
        /\ UNCHANGED flowVars
        /\ UNCHANGED rrVars
        /\ rootExists' = TRUE
        /\ UNCHANGED regRest

\* A file appears at a candidate path of an existing directory (np.save or
\* ani.save by the caller that was handed the path, or by anyone else).
create_file(file_path, arr) ==
    /\ file_path \notin DOMAIN files
    /\ Cardinality(DOMAIN files) < MaxFiles
    /\ \E pat \in ProbePats, i \in 0..MaxProbeIndex :
            /\ file_path = save_dir(pat.name, file_type(pat)) \o "/"
                                \o pattern_fn(pat, i)
            /\ save_dir(pat.name, file_type(pat)) \in dirs
    /\ files' = np_save(files, file_path, arr)
    /\ since' = "changed"
    /\ UNCHANGED <<dirs, log, pc, req, ret, last>>
    /\ UNCHANGED tagVars
    /\ UNCHANGED extraVars
    /\ UNCHANGED flowVars
    /\ UNCHANGED rrVars
    /\ UNCHANGED regVars

\* The user deletes a stored file by hand.
delete_file(file_path) ==
    /\ file_path \in DOMAIN files
    /\ files' = [q \in DOMAIN files \ {file_path} |-> files[q]]
    /\ since' = "changed"
    /\ UNCHANGED <<dirs, log, pc, req, ret, last>>
    /\ UNCHANGED tagVars
    /\ UNCHANGED extraVars
    /\ UNCHANGED flowVars
    /\ UNCHANGED rrVars
    /\ UNCHANGED regVars

ProbeNext ==
    \/ \E pat \in ProbePats : get_unique_path_call(pat)
    \/ \E file_path \in Candidates : create_file(file_path, 1)
    \/ \E file_path \in Candidates : delete_file(file_path)

InitProbe == StoreInit /\ TagIdle /\ RegInit /\ RRIdle /\ FlowIdle /\ ExtraIdle

SpecProbe == InitProbe /\ [][ProbeNext]_vars

\* ------------------------------------------ get_unique_path, step by step
\* Lines 48-51: the directory is created and the loop starts at i = 0.
get_unique_path_enter(pat) ==
    /\ gpc = "idle"
    /\ dirs' = mkdir_parents(dirs, pat.name, file_type(pat))
    /\ rootExists' = TRUE
    /\ gpc' = "probing"
    /\ gpat' = pat
    /\ gi' = 0
    /\ UNCHANGED <<files, log, pc, req, ret, last, since>>
    /\ UNCHANGED regRest
    /\ UNCHANGED tagVars
    /\ UNCHANGED rrVars
    /\ UNCHANGED flowVars
    /\ UNCHANGED <<ldLog, aliasVars, cliVars>>

\* Lines 53-55 and 57: the candidate of i exists, so i += 1.
get_unique_path_next ==
    LET file_path ==
            save_dir(gpat.name, file_type(gpat)) \o "/" \o pattern_fn(gpat, gi)
    IN  /\ gpc = "probing"
        /\ file_path \in DOMAIN files
        /\ gi < MaxLoopIndex
        /\ gi' = gi + 1
        /\ UNCHANGED <<gpc, gpat>>
        /\ UNCHANGED storeVars
        /\ UNCHANGED regVars
        /\ UNCHANGED tagVars
        /\ UNCHANGED rrVars
        /\ UNCHANGED flowVars
        /\ UNCHANGED <<ldLog, aliasVars, cliVars>>

\* Lines 53-56: the candidate of i does not exist and is returned.
get_unique_path_return ==
    LET file_path ==
            save_dir(gpat.name, file_type(gpat)) \o "/" \o pattern_fn(gpat, gi)
    IN  /\ gpc = "probing"
        /\ file_path \notin DOMAIN files
        /\ gpc' = "returned"
        /\ last' = [pat |-> gpat, path |-> file_path]
        /\ since' = "none"
        /\ UNCHANGED <<gpat, gi>>
        /\ UNCHANGED <<files, dirs, log, pc, req, ret>>
        /\ UNCHANGED regVars
        /\ UNCHANGED tagVars
        /\ UNCHANGED rrVars
        /\ UNCHANGED flowVars
        /\ UNCHANGED <<ldLog, aliasVars, cliVars>>

LoopNext ==
    \/ \E pat \in ProbePats : get_unique_path_enter(pat)
    \/ get_unique_path_next
    \/ get_unique_path_return

\* A root holding at most MaxFiles files at candidate paths, each in its
\* directory.
InitLoop ==
    /\ \E paths \in SUBSET Candidates :
            /\ Cardinality(paths) <= MaxFiles
            /\ files = [q \in paths |-> 1]
            /\ dirs = UNION {{pat.name, save_dir(pat.name, file_type(pat))} :
                                pat \in {p \in ProbePats :
                                    \E i \in 0..MaxProbeIndex :
                                        save_dir(p.name, file_type(p)) \o "/"
                                            \o pattern_fn(p, i) \in paths}}
            /\ rootExists = (paths # {})
    /\ log = <<>>
    /\ pc = [w \in Writers |-> "idle"]
    /\ req = [w \in Writers |-> NoReq]
    /\ ret = [w \in Writers |-> "none"]
    /\ last = NoCall
    /\ since = "none"
    /\ TagIdle
    /\ typesState = IF rootExists THEN "ok" ELSE "missing"
    /\ types = <<>>
    /\ defaults = DefaultsSource
    /\ objs = [o \in Objs |-> NoObj]
    /\ regLog = <<>>
    /\ typesWrites = <<>>
    /\ RRIdle
    /\ FlowIdle
    /\ ExtraIdle

SpecLoop == InitLoop /\ [][LoopNext]_vars

\* The process that called get_unique_path keeps running its loop.
SpecLoopFair == SpecLoop /\ WF_vars(get_unique_path_next \/ get_unique_path_return)

\* ------------------------------------------ the store, concurrent writers
\* Line 124 of save_flow in process w: get_unique_path returns a path.
save_flow_probe(w, name, arr) ==
    LET file_path == get_unique_path(name, "flow", FlowPat(name), files)
    IN  /\ pc[w] = "idle"
        /\ Len(log) < MaxRaceCalls
        /\ dirs' = mkdir_parents(dirs, name, "flow")
        /\ ret' = [ret EXCEPT ![w] = file_path]
        /\ req' = [req EXCEPT ![w] = [op |-> "save_flow", arr |-> arr]]
        /\ pc' = [pc EXCEPT ![w] = "saving"]
        /\ log' = Append(log, LogEntry("save_flow", name, FlowPat(name),
                                       file_path, arr))
        /\ UNCHANGED <<files, last, since>>
        /\ UNCHANGED tagVars
        /\ UNCHANGED extraVars
        /\ UNCHANGED flowVars
        /\ UNCHANGED rrVars
        /\ rootExists' = TRUE
        /\ UNCHANGED regRest

\* Line 150 of save_trajectory in process w.
save_trajectory_probe(w, name, ftag, arr) ==
    LET file_path ==
            get_unique_path(name, "trajectory", TrajPat(name, ftag), files)
    IN  /\ pc[w] = "idle"
        /\ Len(log) < MaxRaceCalls
        /\ dirs' = mkdir_parents(dirs, name, "trajectory")
        /\ ret' = [ret EXCEPT ![w] = file_path]
        /\ req' = [req EXCEPT ![w] = [op |-> "save_trajectory", arr |-> arr]]
        /\ pc' = [pc EXCEPT ![w] = "saving"]
        /\ log' = Append(log, LogEntry("save_trajectory", name,
                                       TrajPat(name, ftag), file_path, arr))
        /\ UNCHANGED <<files, last, since>>
        /\ UNCHANGED tagVars
        /\ UNCHANGED extraVars
        /\ UNCHANGED flowVars
        /\ UNCHANGED rrVars
        /\ rootExists' = TRUE
        /\ UNCHANGED regRest

\* Lines 125 and 151 in process w: np.save at the path it was handed.
save_write(w) ==
    /\ pc[w] = "saving"
    /\ files' = np_save(files, ret[w], req[w].arr)
    /\ pc' = [pc EXCEPT ![w] = "idle"]
    /\ req' = [req EXCEPT ![w] = NoReq]
    /\ ret' = [ret EXCEPT ![w] = "none"]
    /\ UNCHANGED <<dirs, log, last, since>>
    /\ UNCHANGED tagVars
    /\ UNCHANGED extraVars
    /\ UNCHANGED flowVars
    /\ UNCHANGED rrVars
    /\ UNCHANGED regVars

RaceNext ==
    \/ \E w \in Writers, name \in Names, arr \in Arrs :
            save_flow_probe(w, name, arr)
    \/ \E w \in Writers, name \in Names, ftag \in FTags, arr \in Arrs :
            save_trajectory_probe(w, name, ftag, arr)
    \/ \E w \in Writers : save_write(w)

InitRace == StoreInit /\ TagIdle /\ RegInit /\ RRIdle /\ FlowIdle /\ ExtraIdle

SpecRace == InitRace /\ [][RaceNext]_vars

\* --------------------------------------------- number_to_tag on its own
\* The call number_to_tag(tagIn) made by the trajectory naming function.
encode_tag ==
    /\ tagOut = NoTag
    /\ tagOut' = number_to_tag(tagIn)
    /\ UNCHANGED tagIn
    /\ UNCHANGED storeVars
    /\ UNCHANGED regVars
    /\ UNCHANGED rrVars
    /\ UNCHANGED flowVars
    /\ UNCHANGED extraVars

TagNext == encode_tag

InitTag ==
    /\ StoreInit
    /\ RegInit
    /\ RRIdle
    /\ FlowIdle
    /\ ExtraIdle
    /\ tagIn \in 0..MaxTagIndex
    /\ tagOut = NoTag

SpecTag == InitTag /\ [][TagNext]_vars

\* ------------------------------------------------ the stack-type registry
\* One entry of the registry history.
RegEvent(ev, stacktype, unseen, params, before, after, dflt) ==
    [ev |-> ev, stacktype |-> stacktype, unseen |-> unseen, params |-> params,
     before |-> before, after |-> after, dflt |-> dflt]

\* One entry of the write history of types.json: the function that opened the
\* file for writing, its stack type and the registry operation it belongs to.
TypesWrite(fn, stacktype, at) == [fn |-> fn, stacktype |-> stacktype, at |-> at]

\* TiffStack(path, stacktype, name) with a readable TIFF: init_memory when
\* main_path is absent, load_params, then save_TiffStack (save_type,
\* save_meta, save_arr).
TiffStack_init(o, stacktype, name, arr) ==
    LET doc0 == IF rootExists THEN types ELSE <<>>
        state0 == IF rootExists THEN typesState ELSE "ok"
        params == load_params(stacktype, doc0, defaults)
        meta == [path |-> "inbox/" \o name \o ".tif", stacktype |-> stacktype,
                 name |-> name]
    IN  /\ Len(regLog) < MaxRegEvents
        /\ state0 = "ok"
        /\ rootExists' = TRUE
        /\ typesState' = "ok"
        /\ types' = save_type(stacktype, params, doc0)
        /\ objs' = [objs EXCEPT ![o] =
                        [phase |-> "constructed", stacktype |-> stacktype,
                         name |-> name, params |-> params, used |-> NoUsed]]
        /\ dirs' = (IF rootExists THEN dirs ELSE dirs \cup {"inbox"})
                        \cup {name}
        /\ files' = np_save(np_save(files, name \o "/meta.json", meta),
                            name \o ".npy", arr)
        /\ regLog' = Append(regLog,
                RegEvent("resolve", stacktype, stacktype \notin DOMAIN doc0,
                         params, doc0, types', defaults))
        /\ typesWrites' =
                (IF rootExists THEN typesWrites
                 ELSE Append(typesWrites,
                             TypesWrite("init_memory", "", Len(regLog) + 1)))
                    \o <<TypesWrite("save_type", stacktype, Len(regLog) + 1)>>
        /\ UNCHANGED <<defaults, log, pc, req, ret, last, since>>
        /\ UNCHANGED tagVars
        /\ UNCHANGED extraVars
        /\ UNCHANGED flowVars
        /\ UNCHANGED rrVars

\* save_type(stacktype, params) called by a tuning workflow.
tune_save_type(stacktype, params) ==
    /\ Len(regLog) < MaxRegEvents
    /\ typesState = "ok"
    /\ types' = save_type(stacktype, params, types)
    /\ regLog' = Append(regLog,
            RegEvent("tune", stacktype, stacktype \notin DOMAIN types, params,
                     types, types', defaults))
    /\ typesWrites' = Append(typesWrites,
            TypesWrite("save_type", stacktype, Len(regLog) + 1))
    /\ UNCHANGED <<rootExists, typesState, defaults, objs>>
    /\ UNCHANGED storeVars
    /\ UNCHANGED tagVars
    /\ UNCHANGED extraVars
    /\ UNCHANGED flowVars
    /\ UNCHANGED rrVars

\* Defaults.py is edited; the program is started again with the new values.
edit_defaults(dflt) ==
    /\ Len(regLog) < MaxRegEvents
    /\ dflt # defaults
    /\ defaults' = dflt
    /\ objs' = [o \in Objs |-> NoObj]
    /\ regLog' = Append(regLog,
            RegEvent("edit", "", FALSE, NoParams, types, types, dflt))
    /\ UNCHANGED <<rootExists, typesState, types, typesWrites>>
    /\ UNCHANGED storeVars
    /\ UNCHANGED tagVars
    /\ UNCHANGED extraVars
    /\ UNCHANGED flowVars
    /\ UNCHANGED rrVars

\* init_memory(), as the init command calls it.
init_memory ==
    /\ Len(regLog) < MaxRegEvents
    /\ rootExists' = TRUE
    /\ dirs' = dirs \cup {"inbox"}
    /\ typesState' = "ok"
    /\ types' = <<>>
    /\ regLog' = Append(regLog,
            RegEvent("init", "", FALSE, NoParams, types, types', defaults))
    /\ typesWrites' = Append(typesWrites,
            TypesWrite("init_memory", "", Len(regLog) + 1))
    /\ UNCHANGED <<defaults, objs>>
    /\ UNCHANGED <<files, log, pc, req, ret, last, since>>
    /\ UNCHANGED tagVars
    /\ UNCHANGED extraVars
    /\ UNCHANGED flowVars
    /\ UNCHANGED rrVars

\* TiffStack.calculate_optical_flow() without arguments: the arguments are
\* looked up in self.params, the flows computed and the result saved.
calculate_optical_flow(o, combined) ==
    LET self == objs[o]
        process_args == dict_get(self.params, "preprocess", defaults.process)
        flow_args == dict_get(self.params, "optical_flow", defaults.flow)
        file_path ==
            get_unique_path(self.name, "flow", FlowPat(self.name), files)
    IN  /\ self.phase # "none"
        /\ Len(regLog) < MaxRegEvents
        /\ objs' = [objs EXCEPT ![o].phase = "computed",
                                ![o].used = [process_args |-> process_args,
                                             flow_args |-> flow_args]]
        /\ dirs' = mkdir_parents(dirs, self.name, "flow")
        /\ files' = np_save(files, file_path, combined)
        /\ log' = Append(log, LogEntry("save_flow", self.name,
                                       FlowPat(self.name), file_path, combined))
        /\ regLog' = Append(regLog,
                RegEvent("compute", self.stacktype, FALSE, self.params,
                         types, types, defaults))
        /\ UNCHANGED <<rootExists, typesState, types, defaults, typesWrites>>
        /\ UNCHANGED <<pc, req, ret, last, since>>
        /\ UNCHANGED tagVars
        /\ UNCHANGED extraVars
        /\ UNCHANGED flowVars
        /\ UNCHANGED rrVars

RegistryNext ==
    \/ \E o \in Objs, stacktype \in StackTypes, name \in Names :
            TiffStack_init(o, stacktype, name, 1)
    \/ \E stacktype \in StackTypes : tune_save_type(stacktype, TunedParams)
    \/ \E dflt \in DefaultsChoices : edit_defaults(dflt)
    \/ init_memory
    \/ \E o \in Objs : calculate_optical_flow(o, 2)

InitRegistry == StoreInit /\ TagIdle /\ RegInit /\ RRIdle /\ FlowIdle /\ ExtraIdle

SpecRegistry == InitRegistry /\ [][RegistryNext]_vars

\* ------------------------------ the registry under two concurrent processes
\* Two processes work on one root that init_memory has set up. Each reads and
\* writes types.json with separate open() calls, so the file accesses of the
\* two interleave: load_params, the read in save_type, the write in save_type.
RRActive == {w \in Writers : rpc[w] # "idle"}

\* TiffStack(path, stacktype, name) up to the return of load_params.
rr_load_params(w, stacktype, name) ==
    /\ rpc[w] = "idle"
    /\ Len(rrLog) + Cardinality(RRActive) < MaxRegRaceCalls
    /\ rpc' = [rpc EXCEPT ![w] = "loaded"]
    /\ rreq' = [rreq EXCEPT ![w] =
                    [op |-> "resolve", stacktype |-> stacktype, name |-> name,
                     params |-> load_params(stacktype, types, defaults),
                     doc |-> <<>>]]
    /\ UNCHANGED rrLog
    /\ UNCHANGED storeVars
    /\ UNCHANGED tagVars
    /\ UNCHANGED extraVars
    /\ UNCHANGED flowVars
    /\ UNCHANGED regVars

\* A tuning workflow is about to call save_type(stacktype, params).
rr_tune(w, stacktype, params) ==
    /\ rpc[w] = "idle"
    /\ Len(rrLog) + Cardinality(RRActive) < MaxRegRaceCalls
    /\ rpc' = [rpc EXCEPT ![w] = "loaded"]
    /\ rreq' = [rreq EXCEPT ![w] =
                    [op |-> "tune", stacktype |-> stacktype, name |-> "",
                     params |-> params, doc |-> <<>>]]
    /\ UNCHANGED rrLog
    /\ UNCHANGED storeVars
    /\ UNCHANGED tagVars
    /\ UNCHANGED extraVars
    /\ UNCHANGED flowVars
    /\ UNCHANGED regVars

\* save_type, first half: open(types_path, 'r') and json.load.
rr_save_type_read(w) ==
    /\ rpc[w] = "loaded"
    /\ rpc' = [rpc EXCEPT ![w] = "read"]
    /\ rreq' = [rreq EXCEPT ![w].doc = types]
    /\ UNCHANGED rrLog
    /\ UNCHANGED storeVars
    /\ UNCHANGED tagVars
    /\ UNCHANGED extraVars
    /\ UNCHANGED flowVars
    /\ UNCHANGED regVars

\* save_type, second half: types[stacktype] = params on the document read
\* before, open(types_path, 'w') and json.dump; a TiffStack construction goes
\* on to save_meta and save_arr.
rr_save_type_write(w) ==
    LET r == rreq[w]
    IN  /\ rpc[w] = "read"
        /\ types' = save_type(r.stacktype, r.params, r.doc)
        /\ typesWrites' = Append(typesWrites,
                TypesWrite("save_type", r.stacktype, Len(rrLog) + 1))
        /\ rrLog' = Append(rrLog, [w |-> w, op |-> r.op,
                                   stacktype |-> r.stacktype,
                                   params |-> r.params])
        /\ rpc' = [rpc EXCEPT ![w] = "idle"]
        /\ rreq' = [rreq EXCEPT ![w] = NoRReq]
        /\ dirs' = IF r.op = "resolve" THEN dirs \cup {r.name} ELSE dirs
        /\ files' =
                IF r.op = "resolve"
                THEN np_save(np_save(files, r.name \o "/meta.json",
                                     [path |-> "inbox/" \o r.name \o ".tif",
                                      stacktype |-> r.stacktype,
                                      name |-> r.name]),
                             r.name \o ".npy", 1)
                ELSE files
        /\ UNCHANGED <<rootExists, typesState, defaults, objs, regLog>>
        /\ UNCHANGED <<log, pc, req, ret, last, since>>
        /\ UNCHANGED tagVars
        /\ UNCHANGED extraVars
        /\ UNCHANGED flowVars

RegRaceNext ==
    \/ \E w \in Writers, stacktype \in StackTypes, name \in Names :
            rr_load_params(w, stacktype, name)
    \/ \E w \in Writers, stacktype \in StackTypes :
            rr_tune(w, stacktype, TunedParams)
    \/ \E w \in Writers : rr_save_type_read(w)
    \/ \E w \in Writers : rr_save_type_write(w)

\* The root as init_memory leaves it.
InitRegRace ==
    /\ files = <<>>
    /\ dirs = {"inbox"}
    /\ log = <<>>
    /\ pc = [w \in Writers |-> "idle"]
    /\ req = [w \in Writers |-> NoReq]
    /\ ret = [w \in Writers |-> "none"]
    /\ last = NoCall
    /\ since = "none"
    /\ tagIn = 0
    /\ tagOut = NoTag
    /\ rootExists = TRUE
    /\ typesState = "ok"
    /\ types = <<>>
    /\ defaults = DefaultsSource
    /\ objs = [o \in Objs |-> NoObj]
    /\ regLog = <<>>
    /\ typesWrites = <<>>
    /\ rpc = [w \in Writers |-> "idle"]
    /\ rreq = [w \in Writers |-> NoRReq]
    /\ rrLog = <<>>
    /\ cfIn = <<>>
    /\ cfOut = NoOut
    /\ pfIn = <<>>
    /\ pfOut = NoOut
    /\ PipeIdle
    /\ ExtraIdle

SpecRegRace == InitRegRace /\ [][RegRaceNext]_vars

\* ------------------------------------------------------- flow.py: arrays
\* An ndarray is [shape, at]: its shape and its elements by 0-based index.
\* A numpy call that raises yields ValueError instead of an array.
ValueError == [error |-> "ValueError"]
IsError(x) == "error" \in DOMAIN x

RECURSIVE MaxOf(_)
MaxOf(shape) ==
    IF shape = <<>> THEN 0
    ELSE LET m == MaxOf(Tail(shape))
         IN  IF Head(shape) > m THEN Head(shape) ELSE m

Indices(shape) ==
    {idx \in [1..Len(shape) -> 0..(MaxOf(shape) - 1)] :
        \A d \in 1..Len(shape) : idx[d] < shape[d]}

\* shape with leading 1s up to rank r, as broadcasting aligns shapes.
PadShape(shape, r) ==
    [d \in 1..r |->
        IF d <= r - Len(shape) THEN 1 ELSE shape[d - (r - Len(shape))]]

\* The index of the operand of shape `shape` that index idx of the broadcast
\* result (rank r) reads.
BroadcastIndex(idx, shape, r) ==
    [d \in 1..Len(shape) |->
        IF shape[d] = 1 THEN 0 ELSE idx[d + (r - Len(shape))]]

\* a + b on ndarrays: element-wise with numpy broadcasting; raises when the
\* shapes cannot be broadcast together.
np_add(a, b) ==
    LET r == IF Len(a.shape) > Len(b.shape) THEN Len(a.shape)
             ELSE Len(b.shape)
        pa == PadShape(a.shape, r)
        pb == PadShape(b.shape, r)
        shape == [d \in 1..r |-> IF pa[d] = 1 THEN pb[d] ELSE pa[d]]
    IN  IF \E d \in 1..r : pa[d] # pb[d] /\ pa[d] # 1 /\ pb[d] # 1
        THEN ValueError
        ELSE [shape |-> shape,
              at |-> [idx \in Indices(shape) |->
                        a.at[BroadcastIndex(idx, a.shape, r)]
                            + b.at[BroadcastIndex(idx, b.shape, r)]]]

\* idx without its position p, and shape with n inserted at position p.
DropAxis(idx, p) ==
    [d \in 1..(Len(idx) - 1) |-> IF d < p THEN idx[d] ELSE idx[d + 1]]

InsertAxis(shape, p, n) ==
    [d \in 1..(Len(shape) + 1) |->
        IF d < p THEN shape[d] ELSE IF d = p THEN n ELSE shape[d - 1]]

\* np.stack(arrays, axis): raises on an empty list and on arrays of different
\* shapes; otherwise joins the arrays along a new axis.
np_stack(arrays, axis) ==
    IF Len(arrays) = 0 THEN ValueError
    ELSE IF \E i \in 1..Len(arrays) : arrays[i].shape # arrays[1].shape
    THEN ValueError
    ELSE LET shape == InsertAxis(arrays[1].shape, axis + 1, Len(arrays))
         IN  [shape |-> shape,
              at |-> [idx \in Indices(shape) |->
                        arrays[idx[axis + 1] + 1].at[DropAxis(idx, axis + 1)]]]

\* combine_flows that stacks the three planes in front (axis 0).
combine_flows_axis0(flow_list) ==
    LET sum_arr == np_add(flow_list[1], flow_list[2])
    IN  IF IsError(sum_arr) THEN sum_arr
        ELSE np_stack(<<sum_arr, flow_list[1], flow_list[2]>>, 0)

\* a broadcast to the shape of the array `like` (np.broadcast_to).
broadcast_to(a, like) ==
    [shape |-> like.shape,
     at |-> [idx \in Indices(like.shape) |->
                a.at[BroadcastIndex(idx, a.shape, Len(like.shape))]]]

\* combine_flows that broadcasts both fields to the shape of their sum
\* before stacking.
combine_flows_broadcast(flow_list) ==
    LET sum_arr == np_add(flow_list[1], flow_list[2])
    IN  IF IsError(sum_arr) THEN sum_arr
        ELSE np_stack(<<sum_arr, broadcast_to(flow_list[1], sum_arr),
                        broadcast_to(flow_list[2], sum_arr)>>, 1)

\* combine_flows(flow_list): the sum of the two fields and the two fields,
\* stacked along axis 1.
combine_flows(flow_list) ==
    LET sum_arr == np_add(flow_list[1], flow_list[2])
    IN  IF IsError(sum_arr) THEN sum_arr
        ELSE np_stack(<<sum_arr, flow_list[1], flow_list[2]>>, 1)

\* --------------------------------------------- flow.py: preprocess_frame
\* The filters are not evaluated: a pixel of a filtered frame records the
\* step, its arguments and the pixel of the frame the step was applied to.
Filtered(frame, step, args) ==
    [shape |-> frame.shape,
     at |-> [idx \in DOMAIN frame.at |->
                [step |-> step, args |-> args, src |-> frame.at[idx]]]]

\* x in lst, for a Python list.
In(x, lst) == \E i \in 1..Len(lst.items) : lst.items[i] = x

EmptyDict == <<>>

\* preprocess_frame((frame, kwargs))
preprocess_frame(frame, kwargs) ==
    LET skip == dict_get(kwargs, "skip", PyList(<<>>))
        laplace_cfg == dict_get(kwargs, "laplace", EmptyDict)
        gauss_cfg == dict_get(kwargs, "gauss", EmptyDict)
        median_cfg == dict_get(kwargs, "median", EmptyDict)
        norm_cfg == dict_get(kwargs, "normalize", EmptyDict)
        frame1 == IF In("laplace", skip)
                  THEN Filtered(frame, "laplace",
                                <<dict_get(laplace_cfg, "sigma", "1.0")>>)
                  ELSE frame
        frame2 == IF ~In("gauss", skip)
                  THEN Filtered(frame1, "gauss",
                        <<dict_get(gauss_cfg, "ksize", PyTuple(<<5, 5>>)),
                          dict_get(gauss_cfg, "sigmaX", "1.5")>>)
                  ELSE frame1
        frame3 == IF ~In("median", skip)
                  THEN Filtered(frame2, "median",
                                <<dict_get(median_cfg, "ksize", 5)>>)
                  ELSE frame2
        frame4 == IF ~In("normalize", skip)
                  THEN Filtered(frame3, "normalize",
                        <<dict_get(norm_cfg, "alpha", 0),
                          dict_get(norm_cfg, "beta", 255),
                          dict_get(norm_cfg, "norm_type", "NORM_MINMAX")>>)
                  ELSE frame3
        frame5 == IF ~In("convert", skip)
                  THEN Filtered(frame4, "convert", <<>>)
                  ELSE frame4
    IN  frame5

\* --------------------------------------------- preprocess_frame on its own
Steps == <<"laplace", "gauss", "median", "normalize", "convert">>

\* A raw 1 x 1 frame holding the pixel px.
RawFrame(px) ==
    [shape |-> <<1, 1>>,
     at |-> [idx \in {<<0, 0>>} |-> [step |-> "raw", args |-> <<px>>]]]

\* The skip lists: every set of step names, listed in the order of Steps.
SkipLists ==
    {PyList(SelectSeq(Steps, LAMBDA n : n \in names)) :
        names \in SUBSET {Steps[i] : i \in 1..Len(Steps)}}

\* The filter settings handed over beside skip: none, the defaults as
\* Defaults.py has them, and a stored config as json.load returns it.
ProcessConfigs ==
    {[laplace |-> [sigma |-> "2.0"]], default_process,
     json_load(json_dump(TunedParams)).process}

KwargsChoices ==
    ProcessConfigs
        \cup {[k \in DOMAIN cfg \cup {"skip"} |->
                    IF k = "skip" THEN skip ELSE cfg[k]] :
                cfg \in ProcessConfigs, skip \in SkipLists}

preprocess_frame_call ==
    /\ pfOut = NoOut
    /\ pfOut' = preprocess_frame(pfIn.frame, pfIn.kwargs)
    /\ UNCHANGED <<pfIn, cfIn, cfOut, pipeVars>>
    /\ UNCHANGED storeVars
    /\ UNCHANGED tagVars
    /\ UNCHANGED extraVars
    /\ UNCHANGED regVars
    /\ UNCHANGED rrVars

PreNext == preprocess_frame_call

InitPre ==
    /\ StoreInit
    /\ TagIdle
    /\ RegInit
    /\ RRIdle
    /\ CombineIdle
    /\ \E px \in FramePixels, kwargs \in KwargsChoices :
            pfIn = [frame |-> RawFrame(px), kwargs |-> kwargs]
    /\ pfOut = NoOut
    /\ PipeIdle
    /\ ExtraIdle

SpecPre == InitPre /\ [][PreNext]_vars

\* ------------------------------ flow.py: the two worker-pool stages
\* arr[j] along the axis at position p: arr[j] is Take(arr, 1, j) and
\* arr[:, j, ...] is Take(arr, 2, j).
Take(arr, p, j) ==
    LET shape == DropAxis(arr.shape, p)
    IN  [shape |-> shape,
         at |-> [idx \in Indices(shape) |-> arr.at[InsertAxis(idx, p, j)]]]

\* TiffStack.isolate_channel(channel_idx)
isolate_channel(arr, channel_idx) == Take(arr, 2, channel_idx)

\* None as numpy sees it: a 0-d object array.
PyNone == [shape |-> <<>>, at |-> [idx \in {<<>>} |-> NoOut]]

CvError == [error |-> "cv2.error"]

\* The number a pixel stands for: its raw value, moved by 100 per filter.
RECURSIVE PixelCode(_)
PixelCode(pixel) ==
    IF pixel.step = "raw" THEN pixel.args[1] ELSE 100 + PixelCode(pixel.src)

\* compute_flow_pair((f1, f2, flow_args)). calcOpticalFlowFarneback is not
\* evaluated: the vector at a pixel is (that pixel in f1, that pixel in f2).
\* It raises on anything but two 2-D frames of one shape.
compute_flow_pair(f1, f2, flow_args) ==
    IF Len(f1.shape) # 2 \/ f1.shape # f2.shape THEN CvError
    ELSE LET shape == f1.shape \o <<2>>
         IN  [shape |-> shape,
              at |-> [idx \in Indices(shape) |->
                        IF idx[3] = 0
                        THEN PixelCode(f1.at[<<idx[1], idx[2]>>])
                        ELSE PixelCode(f2.at[<<idx[1], idx[2]>>])]]

\* The tasks pool.map puts on the queue: n tasks of one kind for a channel,
\* their result slots holding None.
Dispatch(chan, kind, n) ==
    [key \in {<<chan, kind, i>> : i \in 1..n} |->
        [status |-> "pending", result |-> PyNone]]

\* pool.map hands out the results in completion order.
pool_map_unordered(tasks, chan, kind, n, order) ==
    LET mine == SelectSeq(order, LAMBDA key : key[1] = chan /\ key[2] = kind)
    IN  [i \in 1..n |-> tasks[mine[i]].result]

\* The list pool.map returns: the result of task i at position i.
pool_map(tasks, chan, kind, n, order) ==
    [i \in 1..n |-> tasks[<<chan, kind, i>>].result]

\* pool.map returns without waiting for its tasks.
pool_joined_early(tasks, chan, kind) == TRUE

\* pool.map blocks until every task of the call has finished.
pool_joined(tasks, chan, kind) ==
    \A key \in DOMAIN tasks :
        (key[1] = chan /\ key[2] = kind) => tasks[key].status # "pending"

\* pool.map swallows the exceptions of its tasks.
map_raises_never(tasks, chan, kind) == FALSE

\* pool.map re-raises in the caller when a task raised in its worker.
map_raises(tasks, chan, kind) ==
    \E key \in DOMAIN tasks :
        key[1] = chan /\ key[2] = kind /\ tasks[key].status = "failed"

\* What the worker computes for a task.
TaskResult(key) ==
    IF key[2] = "pre"
    THEN preprocess_frame(Take(isolate_channel(plArr, key[1]), 1, key[3] - 1),
                          plArgs.process_args)
    ELSE compute_flow_pair(Take(plProcessed, 1, key[3] - 1),
                           Take(plProcessed, 1, key[3]), plArgs.flow_args)

\* calculate_optical_flow up to the pool.map of preprocess_stack for
\* channel 1.
calculate_optical_flow_begin ==
    /\ plStage = "idle"
    /\ plStage' = "pre"
    /\ plChan' = 1
    /\ plTasks' = Dispatch(1, "pre", plArr.shape[1])
    /\ plOrder' = <<>>
    /\ UNCHANGED <<plArr, plArgs, plProcessed, plFlows, plRet>>
    /\ UNCHANGED <<cfIn, cfOut, pfIn, pfOut>>
    /\ UNCHANGED storeVars
    /\ UNCHANGED tagVars
    /\ UNCHANGED extraVars
    /\ UNCHANGED regVars
    /\ UNCHANGED rrVars

\* A worker finishes a task and its result is put into the task's slot.
worker_done(key) ==
    /\ key \in DOMAIN plTasks
    /\ plTasks[key].status = "pending"
    /\ ~IsError(TaskResult(key))
    /\ plTasks' = [plTasks EXCEPT ![key] =
                        [status |-> "done", result |-> TaskResult(key)]]
    /\ plOrder' = Append(plOrder, key)
    /\ UNCHANGED <<plStage, plChan, plArr, plArgs, plProcessed, plFlows, plRet>>
    /\ UNCHANGED <<cfIn, cfOut, pfIn, pfOut>>
    /\ UNCHANGED storeVars
    /\ UNCHANGED tagVars
    /\ UNCHANGED extraVars
    /\ UNCHANGED regVars
    /\ UNCHANGED rrVars

\* A task raises inside its worker.
worker_raise(key) ==
    /\ key \in DOMAIN plTasks
    /\ plTasks[key].status = "pending"
    /\ plTasks' = [plTasks EXCEPT ![key].status = "failed"]
    /\ plOrder' = Append(plOrder, key)
    /\ UNCHANGED <<plStage, plChan, plArr, plArgs, plProcessed, plFlows, plRet>>
    /\ UNCHANGED <<cfIn, cfOut, pfIn, pfOut>>
    /\ UNCHANGED storeVars
    /\ UNCHANGED tagVars
    /\ UNCHANGED extraVars
    /\ UNCHANGED regVars
    /\ UNCHANGED rrVars

\* preprocess_stack returns np.stack of the mapped frames; optical_flow
\* builds its pairs from them and hands them to its own pool.map.
preprocess_stack_return ==
    LET n == plArr.shape[1]
        processed ==
            np_stack(pool_map(plTasks, plChan, "pre", n, plOrder), 0)
    IN  /\ plStage = "pre"
        /\ pool_joined(plTasks, plChan, "pre")
        /\ ~map_raises(plTasks, plChan, "pre")
        /\ ~IsError(processed)
        /\ plProcessed' = processed
        /\ plTasks' = Dispatch(plChan, "flow", processed.shape[1] - 1) @@ plTasks
        /\ plStage' = "flow"
        /\ UNCHANGED <<plChan, plArr, plArgs, plOrder, plFlows, plRet>>
        /\ UNCHANGED <<cfIn, cfOut, pfIn, pfOut>>
        /\ UNCHANGED storeVars
        /\ UNCHANGED tagVars
        /\ UNCHANGED extraVars
        /\ UNCHANGED regVars
        /\ UNCHANGED rrVars

\* The pool.map or the np.stack of preprocess_stack raises; the exception
\* leaves calculate_optical_flow.
preprocess_stack_raise ==
    LET n == plArr.shape[1]
        processed ==
            np_stack(pool_map(plTasks, plChan, "pre", n, plOrder), 0)
    IN  /\ plStage = "pre"
        /\ pool_joined(plTasks, plChan, "pre")
        /\ map_raises(plTasks, plChan, "pre") \/ IsError(processed)
        /\ plStage' = "failed"
        /\ UNCHANGED <<plChan, plArr, plArgs, plTasks, plOrder, plProcessed,
                       plFlows, plRet>>
        /\ UNCHANGED <<cfIn, cfOut, pfIn, pfOut>>
        /\ UNCHANGED storeVars
        /\ UNCHANGED tagVars
        /\ UNCHANGED extraVars
        /\ UNCHANGED regVars
        /\ UNCHANGED rrVars

\* optical_flow returns np.stack(flow_list) for channel 1 and
\* compute_flow_for_channel(2) starts with its preprocess_stack.
optical_flow_return_next ==
    LET n == plProcessed.shape[1] - 1
        stacked == np_stack(pool_map(plTasks, plChan, "flow", n, plOrder), 0)
    IN  /\ plStage = "flow"
        /\ plChan = 1
        /\ pool_joined(plTasks, plChan, "flow")
        /\ ~map_raises(plTasks, plChan, "flow")
        /\ ~IsError(stacked)
        /\ plFlows' = (1 :> stacked) @@ plFlows
        /\ plChan' = 2
        /\ plProcessed' = NoOut
        /\ plTasks' = Dispatch(2, "pre", plArr.shape[1]) @@ plTasks
        /\ plOrder' = <<>>
        /\ plStage' = "pre"
        /\ UNCHANGED <<plArr, plArgs, plRet>>
        /\ UNCHANGED <<cfIn, cfOut, pfIn, pfOut>>
        /\ UNCHANGED storeVars
        /\ UNCHANGED tagVars
        /\ UNCHANGED extraVars
        /\ UNCHANGED regVars
        /\ UNCHANGED rrVars

\* optical_flow returns for channel 2; the two fields are combined and
\* save_flow writes the result.
optical_flow_return_last ==
    LET n == plProcessed.shape[1] - 1
        stacked == np_stack(pool_map(plTasks, plChan, "flow", n, plOrder), 0)
        combined == combine_flows(<<plFlows[1], stacked>>)
        file_path == get_unique_path("s1", "flow", FlowPat("s1"), files)
    IN  /\ plStage = "flow"
        /\ plChan = 2
        /\ pool_joined(plTasks, plChan, "flow")
        /\ ~map_raises(plTasks, plChan, "flow")
        /\ ~IsError(stacked)
        /\ plFlows' = (2 :> stacked) @@ plFlows
        /\ IF IsError(combined)
           THEN /\ plStage' = "failed"
                /\ UNCHANGED <<plRet, files, dirs, log>>
           ELSE /\ plStage' = "done"
                /\ plRet' = combined
                /\ dirs' = mkdir_parents(dirs, "s1", "flow")
                /\ files' = np_save(files, file_path, combined)
                /\ log' = Append(log, LogEntry("save_flow", "s1",
                                               FlowPat("s1"), file_path,
                                               combined))
        /\ UNCHANGED <<plChan, plArr, plArgs, plTasks, plOrder, plProcessed>>
        /\ UNCHANGED <<cfIn, cfOut, pfIn, pfOut>>
        /\ UNCHANGED <<pc, req, ret, last, since>>
        /\ UNCHANGED tagVars
        /\ UNCHANGED extraVars
        /\ UNCHANGED regVars
        /\ UNCHANGED rrVars

\* The pool.map or the np.stack of optical_flow raises; the exception leaves
\* calculate_optical_flow.
optical_flow_raise ==
    LET n == plProcessed.shape[1] - 1
        stacked == np_stack(pool_map(plTasks, plChan, "flow", n, plOrder), 0)
    IN  /\ plStage = "flow"
        /\ pool_joined(plTasks, plChan, "flow")
        /\ map_raises(plTasks, plChan, "flow") \/ IsError(stacked)
        /\ plStage' = "failed"
        /\ UNCHANGED <<plChan, plArr, plArgs, plTasks, plOrder, plProcessed,
                       plFlows, plRet>>
        /\ UNCHANGED <<cfIn, cfOut, pfIn, pfOut>>
        /\ UNCHANGED storeVars
        /\ UNCHANGED tagVars
        /\ UNCHANGED extraVars
        /\ UNCHANGED regVars
        /\ UNCHANGED rrVars

TaskKeys == {1, 2} \X {"pre", "flow"} \X (1..MaxFrames)

PipelineNext ==
    \/ calculate_optical_flow_begin
    \/ \E key \in TaskKeys : worker_done(key)
    \/ \E key \in TaskKeys : worker_raise(key)
    \/ preprocess_stack_return
    \/ preprocess_stack_raise
    \/ optical_flow_return_next
    \/ optical_flow_return_last
    \/ optical_flow_raise

\* self.arr of a stack of Len(pxs) frames with 3 channels of 1 x 1 pixels.
InputArr(pxs) ==
    LET shape == <<Len(pxs), 3, 1, 1>>
    IN  [shape |-> shape,
         at |-> [idx \in Indices(shape) |->
                    [step |-> "raw", args |-> <<10 * idx[2] + pxs[idx[1] + 1]>>]]]

\* The arguments of a run: those calculate_optical_flow looks up in
\* self.params, and a pair the caller passes.
PipelineArgs ==
    LET params == load_params("ta", <<>>, DefaultsSource)
    IN  {[process_args |-> dict_get(params, "preprocess", default_process),
          flow_args |-> dict_get(params, "optical_flow", default_flow)],
         [process_args |-> [skip |-> PyList(<<"gauss", "median">>)],
          flow_args |-> default_flow]}

\* A TiffStack "s1" of type "ta" has been constructed on a fresh root.
InitPipeline ==
    /\ \E n \in 1..MaxFrames : \E pxs \in [1..n -> FramePixels] :
            plArr = InputArr(pxs)
    /\ plArgs \in PipelineArgs
    /\ files = np_save(np_save(<<>>, "s1/meta.json",
                               [path |-> "inbox/s1.tif", stacktype |-> "ta",
                                name |-> "s1"]),
                       "s1.npy", plArr)
    /\ dirs = {"inbox", "s1"}
    /\ log = <<>>
    /\ pc = [w \in Writers |-> "idle"]
    /\ req = [w \in Writers |-> NoReq]
    /\ ret = [w \in Writers |-> "none"]
    /\ last = NoCall
    /\ since = "none"
    /\ TagIdle
    /\ rootExists = TRUE
    /\ typesState = "ok"
    /\ types = save_type("ta", load_params("ta", <<>>, DefaultsSource), <<>>)
    /\ defaults = DefaultsSource
    /\ objs = [o \in Objs |-> NoObj]
    /\ regLog = <<>>
    /\ typesWrites = <<>>
    /\ RRIdle
    /\ CombineIdle
    /\ PreIdle
    /\ plStage = "idle"
    /\ plChan = 0
    /\ plTasks = <<>>
    /\ plOrder = <<>>
    /\ plProcessed = NoOut
    /\ plFlows = <<>>
    /\ plRet = NoOut
    /\ ExtraIdle

SpecPipeline == InitPipeline /\ [][PipelineNext]_vars

\* ------------------------------------------------ combine_flows on its own
\* The shapes of the fields handed to combine_flows: (k, H, W, 2) fields, and
\* one single-pair field (H, W, 2) without the leading axis.
FieldShapes ==
    {<<k, h, w, 2>> : k \in 0..MaxPairs, h \in 1..MaxSide, w \in 1..MaxSide}
        \cup {<<1, 1, 2>>}

FieldSeeds == {1, 50}

\* A field of the given shape whose elements differ from each other.
Field(shape, seed) ==
    [shape |-> shape,
     at |-> [idx \in Indices(shape) |->
                seed + idx[1] + 3 * idx[2] + 9 * idx[3]
                    + (IF Len(shape) > 3 THEN 27 * idx[4] ELSE 0)]]

combine_flows_call ==
    /\ cfOut = NoOut
    /\ cfOut' = combine_flows(cfIn)
    /\ UNCHANGED <<cfIn, pfIn, pfOut, pipeVars>>
    /\ UNCHANGED storeVars
    /\ UNCHANGED tagVars
    /\ UNCHANGED extraVars
    /\ UNCHANGED regVars
    /\ UNCHANGED rrVars

CombineNext == combine_flows_call

InitCombine ==
    /\ StoreInit
    /\ TagIdle
    /\ RegInit
    /\ RRIdle
    /\ \E sa \in FieldShapes, sb \in FieldShapes :
        \E seed_a \in FieldSeeds, seed_b \in FieldSeeds :
            cfIn = <<Field(sa, seed_a), Field(sb, seed_b)>>
    /\ cfOut = NoOut
    /\ PreIdle
    /\ PipeIdle
    /\ ExtraIdle

SpecCombine == InitCombine /\ [][CombineNext]_vars

\* ---------------------------------- construction and storage calls, failing
\* What open() and json.load raise, and what the constructor runs into.
FileNotFoundError == [error |-> "FileNotFoundError"]
JSONDecodeError == [error |-> "JSONDecodeError"]
AttributeError == [error |-> "AttributeError"]
NoError == [error |-> "none"]

\* TiffStack's defaults: n_channels = 3, dtype = np.uint16.
n_channels == 3
TiffFiles ==
    {[pages |-> 6, dtype |-> "uint16"], [pages |-> 4, dtype |-> "uint16"],
     [pages |-> 6, dtype |-> "uint8"]}

\* The two asserts of the loading block.
PagesDivisible(tiff) == tiff.pages % n_channels = 0
DtypeMatches(tiff) == tiff.dtype = "uint16"

\* Whether the loading block reaches the assignment of self.arr: an assert
\* that fails raises inside the try, and the except clause prints and goes on.
arr_assigned(tiff) == PagesDivisible(tiff) /\ DtypeMatches(tiff)

\* with open(types_path, 'r') as f: json.load(f)
json_load_file(root, state, doc) ==
    IF ~root \/ state = "missing" THEN FileNotFoundError
    ELSE IF state = "malformed" THEN JSONDecodeError
    ELSE json_load_types(doc)

\* load_params that hands out the defaults when types.json cannot be read.
load_params_fallback(stacktype, root, state, doc, dflt) ==
    IF IsError(json_load_file(root, state, doc))
    THEN load_params(stacktype, <<>>, dflt)
    ELSE load_params(stacktype, doc, dflt)

\* load_params(stacktype) against the file as it is on disk.
load_params_file(stacktype, root, state, doc, dflt) ==
    IF IsError(json_load_file(root, state, doc))
    THEN json_load_file(root, state, doc)
    ELSE load_params(stacktype, doc, dflt)

\* One entry of the history of constructions and storage calls: the call, the
\* disk before it, how it ended, and the artifacts it wrote.
LoadEvent(op, arg, violated, root0, state0, types0, outcome, exc, returned, wrote) ==
    [op |-> op, arg |-> arg, violated |-> violated, root0 |-> root0,
     state0 |-> state0, types0 |-> types0, outcome |-> outcome, exc |-> exc,
     returned |-> returned, wrote |-> wrote]

\* TiffStack(path, stacktype, name) on any TIFF: the loading block,
\* init_memory when main_path is absent, load_params, then save_TiffStack
\* (save_type, save_meta, save_arr), up to the first exception that leaves the
\* constructor.
TiffStack_new(o, tiff, stacktype, name, arr) ==
    LET state1 == IF rootExists THEN typesState ELSE "ok"
        doc1 == IF rootExists THEN types ELSE <<>>
        params == load_params_file(stacktype, TRUE, state1, doc1, defaults)
        read2 == json_load_file(TRUE, state1, doc1)
        meta == [path |-> "inbox/" \o name \o ".tif", stacktype |-> stacktype,
                 name |-> name]
        at == IF IsError(params) THEN "load_params"
              ELSE IF IsError(read2) THEN "save_type"
              ELSE IF ~arr_assigned(tiff) THEN "save_arr"
              ELSE "done"
        exc == IF at = "load_params" THEN params
               ELSE IF at = "save_type" THEN read2
               ELSE IF at = "save_arr" THEN AttributeError
               ELSE NoError
        wrote == (IF rootExists THEN {} ELSE {"types.json (init_memory)"})
                 \cup (IF at \in {"save_arr", "done"}
                       THEN {"types.json", "meta.json"} ELSE {})
                 \cup (IF at = "done" THEN {"array"} ELSE {})
    IN  /\ Len(ldLog) < MaxLoadEvents
        /\ rootExists' = TRUE
        /\ typesState' = state1
        /\ types' = IF at \in {"save_arr", "done"}
                    THEN save_type(stacktype, params, doc1) ELSE doc1
        /\ dirs' = (IF rootExists THEN dirs ELSE dirs \cup {"inbox"})
                   \cup (IF at \in {"save_arr", "done"} THEN {name} ELSE {})
        /\ files' =
                IF at = "done"
                THEN np_save(np_save(files, name \o "/meta.json", meta),
                             name \o ".npy", arr)
                ELSE IF at = "save_arr"
                THEN np_save(files, name \o "/meta.json", meta)
                ELSE files
        /\ objs' = IF at = "done"
                   THEN [objs EXCEPT ![o] =
                            [phase |-> "constructed", stacktype |-> stacktype,
                             name |-> name, params |-> params,
                             used |-> NoUsed]]
                   ELSE objs
        /\ ldLog' = Append(ldLog,
                LoadEvent("TiffStack", name, ~arr_assigned(tiff), rootExists,
                          typesState, types,
                          IF at = "done" THEN "returned" ELSE "raised",
                          exc, params, wrote))
        /\ UNCHANGED <<defaults, regLog, typesWrites>>
        /\ UNCHANGED <<log, pc, req, ret, last, since>>
        /\ UNCHANGED tagVars
        /\ UNCHANGED rrVars
        /\ UNCHANGED flowVars
        /\ UNCHANGED <<loopVars, aliasVars, cliVars>>

\* load_params(stacktype) called on its own, as the commands do.
load_params_call(stacktype) ==
    LET params ==
            load_params_file(stacktype, rootExists, typesState, types, defaults)
    IN  /\ Len(ldLog) < MaxLoadEvents
        /\ ldLog' = Append(ldLog,
                LoadEvent("load_params", stacktype, FALSE, rootExists,
                          typesState, types,
                          IF IsError(params) THEN "raised" ELSE "returned",
                          IF IsError(params) THEN params ELSE NoError,
                          params, {}))
        /\ UNCHANGED storeVars
        /\ UNCHANGED regVars
        /\ UNCHANGED tagVars
        /\ UNCHANGED rrVars
        /\ UNCHANGED flowVars
        /\ UNCHANGED <<loopVars, aliasVars, cliVars>>

\* save_type(stacktype, params) called on its own: the read of types.json
\* raises when the file is missing or malformed.
save_type_call(stacktype, params) ==
    LET read == json_load_file(rootExists, typesState, types)
    IN  /\ Len(ldLog) < MaxLoadEvents
        /\ types' = IF IsError(read) THEN types
                    ELSE save_type(stacktype, params, types)
        /\ ldLog' = Append(ldLog,
                LoadEvent("save_type", stacktype, FALSE, rootExists,
                          typesState, types,
                          IF IsError(read) THEN "raised" ELSE "returned",
                          IF IsError(read) THEN read ELSE NoError,
                          NoParams,
                          IF IsError(read) THEN {} ELSE {"types.json"}))
        /\ UNCHANGED <<rootExists, typesState, defaults, objs, regLog,
                       typesWrites>>
        /\ UNCHANGED storeVars
        /\ UNCHANGED tagVars
        /\ UNCHANGED rrVars
        /\ UNCHANGED flowVars
        /\ UNCHANGED <<loopVars, aliasVars, cliVars>>

\* save_meta(path, stacktype, name) called on its own: mkdir(parents=True)
\* creates main_path when it is absent.
save_meta_call(stacktype, name) ==
    LET meta == [path |-> "inbox/" \o name \o ".tif", stacktype |-> stacktype,
                 name |-> name]
    IN  /\ Len(ldLog) < MaxLoadEvents
        /\ rootExists' = TRUE
        /\ dirs' = dirs \cup {name}
        /\ files' = np_save(files, name \o "/meta.json", meta)
        /\ ldLog' = Append(ldLog,
                LoadEvent("save_meta", name, FALSE, rootExists, typesState,
                          types, "returned", NoError, NoParams,
                          {"meta.json"}))
        /\ UNCHANGED <<typesState, types, defaults, objs, regLog, typesWrites>>
        /\ UNCHANGED <<log, pc, req, ret, last, since>>
        /\ UNCHANGED tagVars
        /\ UNCHANGED rrVars
        /\ UNCHANGED flowVars
        /\ UNCHANGED <<loopVars, aliasVars, cliVars>>

\* save_arr(name, arr) called on its own: np.save opens main_path/name.npy and
\* raises when main_path is absent.
save_arr_call(name, arr) ==
    /\ Len(ldLog) < MaxLoadEvents
    /\ files' = IF rootExists THEN np_save(files, name \o ".npy", arr)
                ELSE files
    /\ ldLog' = Append(ldLog,
            LoadEvent("save_arr", name, FALSE, rootExists, typesState, types,
                      IF rootExists THEN "returned" ELSE "raised",
                      IF rootExists THEN NoError ELSE FileNotFoundError,
                      NoParams,
                      IF rootExists THEN {"array"} ELSE {}))
    /\ UNCHANGED <<dirs, log, pc, req, ret, last, since>>
    /\ UNCHANGED regVars
    /\ UNCHANGED tagVars
    /\ UNCHANGED rrVars
    /\ UNCHANGED flowVars
    /\ UNCHANGED <<loopVars, aliasVars, cliVars>>

\* The user or another program leaves types.json malformed.
corrupt_types ==
    /\ rootExists
    /\ typesState = "ok"
    /\ typesState' = "malformed"
    /\ UNCHANGED <<rootExists, types, defaults, objs, regLog, typesWrites>>
    /\ UNCHANGED storeVars
    /\ UNCHANGED tagVars
    /\ UNCHANGED rrVars
    /\ UNCHANGED flowVars
    /\ UNCHANGED extraVars

\* The user deletes types.json.
delete_types ==
    /\ rootExists
    /\ typesState = "ok"
    /\ typesState' = "missing"
    /\ types' = <<>>
    /\ UNCHANGED <<rootExists, defaults, objs, regLog, typesWrites>>
    /\ UNCHANGED storeVars
    /\ UNCHANGED tagVars
    /\ UNCHANGED rrVars
    /\ UNCHANGED flowVars
    /\ UNCHANGED extraVars

LoadNext ==
    \/ \E o \in Objs, tiff \in TiffFiles, stacktype \in StackTypes :
            TiffStack_new(o, tiff, stacktype, "s1", 1)
    \/ \E stacktype \in StackTypes : load_params_call(stacktype)
    \/ \E stacktype \in StackTypes : save_type_call(stacktype, TunedParams)
    \/ \E stacktype \in StackTypes : save_meta_call(stacktype, "s1")
    \/ save_arr_call("s1", 2)
    \/ corrupt_types
    \/ delete_types

InitLoad ==
    /\ StoreInit
    /\ TagIdle
    /\ RegInit
    /\ RRIdle
    /\ FlowIdle
    /\ ExtraIdle

SpecLoad == InitLoad /\ [][LoadNext]_vars

\* --------------------------------------- load_params: the objects returned
\* Python dicts are objects: heap maps an object's identity to the value it
\* holds now, and a config load_params returned is a dict whose three entries
\* refer to objects of the heap. The three module-level dicts of Defaults.py
\* are created once, at import.
DefaultIds == {"default_process", "default_flow", "default_trajectory"}

HeapAtImport ==
    [id \in DefaultIds |->
        IF id = "default_process" THEN default_process
        ELSE IF id = "default_flow" THEN default_flow
        ELSE default_trajectory]

\* The objects json.load creates for the n-th config handed out.
FreshId(n, key) == "json" \o ToString(n) \o "." \o key

\* What a config holds when its references are followed.
Deref(hp, refs) ==
    [process |-> hp[refs.process], flow |-> hp[refs.flow],
     trajectory |-> hp[refs.trajectory]]

\* Line 254: {'process' : default_process, 'flow' : default_flow,
\* 'trajectory' : default_trajectory} holds the module-level objects.
DefaultRefs ==
    [process |-> "default_process", flow |-> "default_flow",
     trajectory |-> "default_trajectory"]

\* load_params(stacktype), with the identity of what it returns.
load_params_refs(stacktype) ==
    LET n == Len(handles) + 1
        types_py == json_load_types(types)
        unseen == stacktype \notin DOMAIN types_py
        refs == IF unseen THEN DefaultRefs
                ELSE [process |-> FreshId(n, "process"),
                      flow |-> FreshId(n, "flow"),
                      trajectory |-> FreshId(n, "trajectory")]
        value == IF unseen THEN Deref(heap, DefaultRefs)
                 ELSE types_py[stacktype]
        created == {refs.process, refs.flow, refs.trajectory} \ DOMAIN heap
    IN  /\ Len(handles) < MaxHandles
        /\ heap' = [id \in DOMAIN heap \cup created |->
                        IF id \in DOMAIN heap THEN heap[id]
                        ELSE IF id = refs.process THEN value.process
                        ELSE IF id = refs.flow THEN value.flow
                        ELSE value.trajectory]
        /\ handles' = Append(handles,
                [stacktype |-> stacktype, unseen |-> unseen, refs |-> refs,
                 returned |-> Deref(heap', refs)])
        /\ UNCHANGED storeVars
        /\ UNCHANGED regVars
        /\ UNCHANGED tagVars
        /\ UNCHANGED rrVars
        /\ UNCHANGED flowVars
        /\ UNCHANGED <<loopVars, ldLog, cliVars>>

\* The caller changes the preprocessing config it was handed:
\* params['process']['median']['ksize'] = ksize.
set_median_ksize(h, ksize) ==
    LET id == handles[h].refs.process
    IN  /\ h \in DOMAIN handles
        /\ heap[id].median.ksize # ksize
        /\ heap' = [heap EXCEPT ![id].median.ksize = ksize]
        /\ UNCHANGED handles
        /\ UNCHANGED storeVars
        /\ UNCHANGED regVars
        /\ UNCHANGED tagVars
        /\ UNCHANGED rrVars
        /\ UNCHANGED flowVars
        /\ UNCHANGED <<loopVars, ldLog, cliVars>>

\* The caller changes the flow config it was handed:
\* params['flow']['levels'] = levels.
set_flow_levels(h, levels) ==
    LET id == handles[h].refs.flow
    IN  /\ h \in DOMAIN handles
        /\ heap[id].levels # levels
        /\ heap' = [heap EXCEPT ![id].levels = levels]
        /\ UNCHANGED handles
        /\ UNCHANGED storeVars
        /\ UNCHANGED regVars
        /\ UNCHANGED tagVars
        /\ UNCHANGED rrVars
        /\ UNCHANGED flowVars
        /\ UNCHANGED <<loopVars, ldLog, cliVars>>

AliasNext ==
    \/ \E stacktype \in StackTypes \cup {"tc"} : load_params_refs(stacktype)
    \/ \E h \in 1..MaxHandles, ksize \in {5, 7} : set_median_ksize(h, ksize)
    \/ \E h \in 1..MaxHandles, levels \in {3, 5} : set_flow_levels(h, levels)

\* A root set up by init_memory whose registry is empty or holds one tuned
\* type, and the program just imported.
InitAlias ==
    /\ StoreInit
    /\ TagIdle
    /\ rootExists = TRUE
    /\ typesState = "ok"
    /\ types \in {<<>>, save_type("ta", TunedParams, <<>>)}
    /\ defaults = DefaultsSource
    /\ objs = [o \in Objs |-> NoObj]
    /\ regLog = <<>>
    /\ typesWrites = <<>>
    /\ RRIdle
    /\ FlowIdle
    /\ LoopIdle
    /\ LoadIdle
    /\ CliIdle
    /\ heap = HeapAtImport
    /\ handles = <<>>

SpecAlias == InitAlias /\ [][AliasNext]_vars

\* ------------------------------------------------- the optflow and traj commands
\* File names as the characters they are made of.
TifSuffix == <<".", "t", "i", "f">>
TiffSuffix == <<".", "t", "i", "f", "f">>
InboxNames ==
    {<<"a">> \o TifSuffix, <<"b">> \o TiffSuffix, <<"n", ".", "t", "x", "t">>}

\* str.endswith
endswith(file, suffix) ==
    /\ Len(file) >= Len(suffix)
    /\ SubSeq(file, Len(file) - Len(suffix) + 1, Len(file)) = suffix

\* The orders os.listdir may list a directory in.
Listings(S) ==
    {q \in UNION {[1..n -> S] : n \in {Cardinality(S)}} :
        \A i, j \in DOMAIN q : i # j => q[i] # q[j]}

TuneNotice == "Sorry, this feature is not implemented yet. :p"

\* click.exceptions is a module: calling it raises TypeError before anything
\* can be raised or returned.
TypeError == [error |-> "TypeError"]
UnboundLocalError == [error |-> "UnboundLocalError"]

CliResult(echoes, exc) ==
    [echoes |-> echoes, exc |-> exc,
     outcome |-> IF exc = NoError THEN "returned" ELSE "raised"]

\* optflow(tune, default, name) over an inbox listed as inbox_files.
optflow_result(inbox_exists, inbox_files, tune, default) ==
    IF ~inbox_exists THEN CliResult(<<>>, FileNotFoundError)
    ELSE IF \E i \in DOMAIN inbox_files :
                \/ ~endswith(inbox_files[i], TifSuffix)
                \/ ~endswith(inbox_files[i], TiffSuffix)
    THEN CliResult(<<>>, TypeError)
    ELSE IF inbox_files = <<>> THEN CliResult(<<>>, NoError)
    ELSE IF tune THEN CliResult(<<TuneNotice>>, UnboundLocalError)
    ELSE IF default
    THEN CliResult(<<"Using default parameters">>, UnboundLocalError)
    ELSE CliResult(<<>>, [error |-> "TiffStack(path, name)"])

\* The optflow command. The branches after the first loop that need a file
\* are written out in optflow_result, but no name ends with both suffixes,
\* so the command never reaches TiffStack and leaves the store as it is.
optflow(inbox_files, tune, default) ==
    /\ cliIn' = [cmd |-> "optflow", tune |-> tune, default |-> default,
                 inbox |-> "inbox" \in dirs, files |-> inbox_files,
                 answers |-> <<>>, stack_index |-> 0]
    /\ cliOut' = optflow_result("inbox" \in dirs, inbox_files, tune, default)
    /\ UNCHANGED storeVars
    /\ UNCHANGED regVars
    /\ UNCHANGED tagVars
    /\ UNCHANGED rrVars
    /\ UNCHANGED flowVars
    /\ UNCHANGED <<loopVars, ldLog, aliasVars>>

\* The directories directly under main_path.
TopDirs == dirs \cap ({"inbox"} \cup Names)

\* The tags of the flow files of a stack: the part of the stem after the
\* last underscore.
FlowIndices(name) ==
    {i \in 0..MaxSaves :
        (save_dir(name, "flow") \o "/" \o pattern_fn(FlowPat(name), i))
            \in DOMAIN files}
ftags_of(name) == {"f" \o ToString(i) : i \in FlowIndices(name)}

\* traj(tune, default, flows) with the stacks as listed, the number typed at
\* the first prompt and the answers typed at the tag prompts.
traj_result(root_exists, stacks, stack_index, answers, tune, default) ==
    LET menu == <<"Please select a stack">>
                    \o [i \in DOMAIN stacks |-> stacks[i]]
        name == stacks[stack_index + 1]
        ftags == ftags_of(name)
        listed == answers[1] \in {"list", "l"}
        ftag == IF listed THEN answers[2] ELSE answers[1]
        shown == IF listed
                 THEN menu \o [i \in 1..Cardinality(ftags) |-> "a tag"]
                 ELSE menu
        after_tune == IF tune THEN shown \o <<TuneNotice>> ELSE shown
    IN  IF ~root_exists THEN CliResult(<<>>, FileNotFoundError)
        ELSE IF stack_index < 0 \/ stack_index >= Len(stacks)
        THEN CliResult(menu, TypeError)
        ELSE IF save_dir(name, "flow") \notin dirs
        THEN CliResult(menu, FileNotFoundError)
        ELSE IF ftag \notin ftags THEN CliResult(shown, TypeError)
        ELSE IF default
        THEN CliResult(after_tune \o <<"Using default parameters">>, NoError)
        ELSE CliResult(after_tune, UnboundLocalError)

\* The traj command, with os.listdir listing the stacks in any order: it reads
\* the store and writes nothing.
traj(stack_index, answers, tune, default) ==
    /\ \E stacks \in Listings(TopDirs) :
            /\ cliIn' = [cmd |-> "traj", tune |-> tune, default |-> default,
                         inbox |-> "inbox" \in dirs, files |-> stacks,
                         answers |-> answers,
                         stack_index |-> stack_index]
            /\ cliOut' = traj_result(rootExists, stacks, stack_index, answers,
                                     tune, default)
    /\ UNCHANGED storeVars
    /\ UNCHANGED regVars
    /\ UNCHANGED tagVars
    /\ UNCHANGED rrVars
    /\ UNCHANGED flowVars
    /\ UNCHANGED <<loopVars, ldLog, aliasVars>>

\* The init command: init_memory().
init_cmd ==
    /\ rootExists' = TRUE
    /\ dirs' = dirs \cup {"inbox"}
    /\ typesState' = "ok"
    /\ types' = <<>>
    /\ UNCHANGED <<defaults, objs, regLog, typesWrites>>
    /\ UNCHANGED <<files, log, pc, req, ret, last, since>>
    /\ UNCHANGED tagVars
    /\ UNCHANGED rrVars
    /\ UNCHANGED flowVars
    /\ UNCHANGED extraVars

TagAnswers == {<<"f0">>, <<"f1">>, <<"list", "f0">>, <<"l", "f7">>}

CliNext ==
    \/ \E S \in SUBSET InboxNames, tune \in BOOLEAN, default \in BOOLEAN :
            \E listing \in Listings(S) : optflow(listing, tune, default)
    \/ \E stack_index \in -1..2, answers \in TagAnswers, tune \in BOOLEAN,
            default \in BOOLEAN : traj(stack_index, answers, tune, default)
    \/ init_cmd
    \/ save_flow("s1", 1)

InitCli ==
    /\ StoreInit
    /\ TagIdle
    /\ RegInit
    /\ RRIdle
    /\ FlowIdle
    /\ LoopIdle
    /\ LoadIdle
    /\ AliasIdle
    /\ CliIdle

SpecCli == InitCli /\ [][CliNext]_vars

\* ------------------------------------------------------------------ claims
\* C1: in the sequential store no save overwrites an earlier result: every
\* file an earlier save_flow or save_trajectory wrote still exists with the
\* content it was first written with, and every call created one new file.
C1_NeverOverwrites ==
    /\ \A k \in 1..Len(log) :
            log[k].path \in DOMAIN files /\ files[log[k].path] = log[k].arr
    /\ \A j, k \in 1..Len(log) : j # k => log[j].path # log[k].path
    /\ Cardinality(DOMAIN files) = Len(log)

\* Two saves of the same kind and name with different contents, and a
\* trajectory saved after a flow.
C1_Witness ==
    /\ \E j, k \in 1..Len(log) :
            /\ j < k
            /\ log[j].pat = log[k].pat
            /\ log[j].arr # log[k].arr
    /\ \E j, k \in 1..Len(log) :
            j < k /\ log[j].op = "save_flow" /\ log[k].op = "save_trajectory"

\* The number of save_flow calls for name among the first k entries of log.
FlowsBefore(k, name) ==
    Cardinality({j \in 1..(k - 1) :
                    log[j].op = "save_flow" /\ log[j].name = name})

\* C5: from an empty stack and without deletions, the k-th save_flow for a
\* name writes flow/{name}_f{k-1}.npy.
C5_FlowSuffixCounts ==
    \A k \in 1..Len(log) :
        log[k].op = "save_flow" =>
            /\ log[k].path = log[k].name \o "/flow/" \o log[k].name \o "_f"
                                \o ToString(FlowsBefore(k, log[k].name)) \o ".npy"
            /\ log[k].path \in DOMAIN files

\* A second run against the same stack name wrote suffix 1.
C5_Witness ==
    \E k \in 1..Len(log) :
        /\ log[k].op = "save_flow"
        /\ FlowsBefore(k, log[k].name) = 1
        /\ log[k].path = "s1/flow/s1_f1.npy"

\* The index-0 candidate of the naming function of the last direct call.
FirstCandidate(pat) ==
    save_dir(pat.name, file_type(pat)) \o "/" \o pattern_fn(pat, 0)

\* C2: the path get_unique_path returns does not exist when the call
\* returns, whatever the name, kind, naming function and directory content.
C2_ReturnedPathIsFree ==
    (last # NoCall /\ since = "none") => last.path \notin DOMAIN files

\* A call has just returned from a directory in which the first candidate
\* exists, so the probe had to move past it.
C2_Witness ==
    /\ last # NoCall
    /\ since = "none"
    /\ FirstCandidate(last.pat) \in DOMAIN files
    /\ last.path # FirstCandidate(last.pat)

\* C4: a second get_unique_path call for the same naming function with
\* nothing changed in between returns the same path; a call made while a
\* file exists at the path returned before returns a different path.
C4_IdempotentUntilCreated ==
    [][\A pat \in ProbePats :
            (get_unique_path_call(pat) /\ last.pat = pat) =>
                /\ since = "none" => last'.path = last.path
                /\ last.path \in DOMAIN files => last'.path # last.path]_vars

\* A call has returned a path other than the one returned before for the
\* same naming function, whose file now exists.
C4_Witness ==
    /\ last # NoCall
    /\ since = "none"
    /\ last.pat = FlowPat("s1")
    /\ last.path = "s1/flow/s1_f1.npy"
    /\ "s1/flow/s1_f0.npy" \in DOMAIN files

\* C3: once get_unique_path has returned a path for a (name, kind), no other
\* call for the same naming function returns an equal path, also when a
\* concurrent writer probes between the first caller's probe and its write
\* (nothing is deleted in this specification).
C3_NoEqualPathReturned ==
    \A j, k \in 1..Len(log) :
        (j # k /\ log[j].pat = log[k].pat) => log[j].path # log[k].path

\* The bijective base-26 numeral of n over a..z: a, ..., z, aa, ab, ...
RECURSIVE Bijective26(_)
Bijective26(n) ==
    IF n < 26 THEN Letters[n + 1]
    ELSE Bijective26((n \div 26) - 1) \o Letters[(n % 26) + 1]

\* C6: number_to_tag(i) is the bijective base-26 numeral of i:
\* 0 -> "a", 25 -> "z", 26 -> "aa", 701 -> "zz", 702 -> "aaa".
C6_TagIsBijectiveBase26 ==
    tagOut # NoTag =>
        /\ tagOut = Bijective26(tagIn)
        /\ tagIn = 0 => tagOut = "a"
        /\ tagIn = 25 => tagOut = "z"
        /\ tagIn = 26 => tagOut = "aa"
        /\ tagIn = 701 => tagOut = "zz"
        /\ tagIn = 702 => tagOut = "aaa"

\* C7: number_to_tag is injective over 0..MaxTagIndex: no other index has
\* the tag computed for tagIn.
C7_TagInjective ==
    tagOut # NoTag =>
        \A j \in 0..MaxTagIndex : number_to_tag(j) = tagOut => j = tagIn

\* A three-letter tag has been computed, with shorter tags below it.
C7_Witness == tagOut # NoTag /\ tagIn = 702 /\ Len(tagOut) = 3

\* The config load_params synthesizes from the defaults dflt.
DefaultParams(dflt) ==
    [process |-> dflt.process, flow |-> dflt.flow,
     trajectory |-> dflt.trajectory]

\* C8: constructing a TiffStack of an unseen stack type returns the default
\* config and writes it to types.json under that type, and every
\* calculate_optical_flow comes after the construction that persisted the
\* config it runs with.
C8_UnseenTypePersistedBeforeUse ==
    \A k \in 1..Len(regLog) :
        /\ (regLog[k].ev = "resolve" /\ regLog[k].unseen) =>
                /\ regLog[k].params = DefaultParams(regLog[k].dflt)
                /\ StoredOf(regLog[k].after, regLog[k].stacktype)
                        = json_dump(DefaultParams(regLog[k].dflt))
        /\ regLog[k].ev = "compute" =>
                \E j \in 1..(k - 1) :
                    /\ regLog[j].ev = "resolve"
                    /\ regLog[j].stacktype = regLog[k].stacktype
                    /\ regLog[j].params = regLog[k].params
                    /\ StoredOf(regLog[j].after, regLog[j].stacktype)
                            = json_dump(regLog[j].params)

\* A flow has been computed for a stack whose type was unseen when the
\* stack was constructed.
C8_Witness ==
    \E j, k \in 1..Len(regLog) :
        /\ j < k
        /\ regLog[j].ev = "resolve"
        /\ regLog[j].unseen
        /\ regLog[k].ev = "compute"
        /\ regLog[k].stacktype = regLog[j].stacktype
        /\ regLog[k].params = regLog[j].params

\* C9: constructing a TiffStack of a stack type already in types.json
\* returns the stored config and leaves the whole registry as it was.
C9_PresentTypeUnchanged ==
    \A k \in 1..Len(regLog) :
        (regLog[k].ev = "resolve" /\ ~regLog[k].unseen) =>
            /\ regLog[k].params
                    = json_load(regLog[k].before[regLog[k].stacktype])
            /\ regLog[k].after = regLog[k].before

\* A type holding a tuned config has been resolved while another type was
\* stored beside it.
C9_Witness ==
    \E k \in 1..Len(regLog) :
        /\ regLog[k].ev = "resolve"
        /\ ~regLog[k].unseen
        /\ regLog[k].before[regLog[k].stacktype] = json_dump(TunedParams)
        /\ Cardinality(DOMAIN regLog[k].before) = 2

\* C10: a second resolve of a stack type returns exactly the config the
\* first resolve (of the then unseen type) returned, whatever happened to
\* the compiled-in defaults in between (no save_type by tuning and no
\* init_memory in between).
C10_SecondResolveSame ==
    \A j, k \in 1..Len(regLog) :
        ( /\ j < k
          /\ regLog[j].ev = "resolve"
          /\ regLog[j].unseen
          /\ regLog[k].ev = "resolve"
          /\ regLog[k].stacktype = regLog[j].stacktype
          /\ \A m \in (j + 1)..(k - 1) : regLog[m].ev \notin {"tune", "init"} )
        => regLog[k].params = regLog[j].params

\* The writes of types.json that save_type made inside registry operation k.
SaveTypeWrites(k) ==
    {w \in 1..Len(typesWrites) :
        typesWrites[w].at = k /\ typesWrites[w].fn = "save_type"}

\* C11: constructing a TiffStack writes types.json through save_type exactly
\* once when the stack type is unseen and not at all when the type is
\* already stored.
C11_WriteOnlyWhenUnseen ==
    \A k \in 1..Len(regLog) :
        regLog[k].ev = "resolve" =>
            Cardinality(SaveTypeWrites(k))
                = (IF regLog[k].unseen THEN 1 ELSE 0)

\* C13: every stack type that was stored in types.json after some registry
\* operation is still stored, and init_memory leaves the registry document
\* it finds as it was.
C13_StoredTypeNeverDeleted ==
    \A k \in 1..Len(regLog) :
        /\ \A t \in DOMAIN regLog[k].after : t \in DOMAIN types
        /\ regLog[k].ev = "init" => regLog[k].after = regLog[k].before

\* C12: with two processes interleaving their reads and writes of
\* types.json, every stack type a returned save_type wrote has an entry in
\* the registry.
C12_NoRegistryWriteLost ==
    \A k \in 1..Len(rrLog) : rrLog[k].stacktype \in DOMAIN types

C17_MismatchRaises ==
    (cfOut # NoOut /\ cfIn[1].shape # cfIn[2].shape) => cfOut = ValueError

\* combine_flows has raised on a field with a leading dimension of 1 and a
\* field with two frame pairs, whose sum numpy computes by broadcasting.
C17_Witness ==
    /\ cfOut = ValueError
    /\ cfIn[1].shape = <<1, 2, 2, 2>>
    /\ cfIn[2].shape = <<2, 2, 2, 2>>
    /\ ~IsError(np_add(cfIn[1], cfIn[2]))

\* The steps applied to a pixel, first applied first.
RECURSIVE StepsOf(_)
StepsOf(pixel) ==
    IF pixel.step = "raw" THEN <<>>
    ELSE Append(StepsOf(pixel.src), pixel.step)

\* C18: preprocess_frame applies exactly the steps whose name is not in the
\* skip list of the config, in the order laplace, gauss, median, normalize,
\* convert, each to the output of the step before; with an empty skip list
\* all five run, laplace first.
C18_StepsNotSkippedInOrder ==
    pfOut # NoOut =>
        LET skip == dict_get(pfIn.kwargs, "skip", PyList(<<>>))
        IN  StepsOf(pfOut.at[<<0, 0>>])
                = SelectSeq(Steps, LAMBDA n : ~In(n, skip))

\* Frame i (0-based) of channel c as preprocess_frame returns it.
Preprocessed(c, i) ==
    preprocess_frame(Take(isolate_channel(plArr, c), 1, i), plArgs.process_args)

\* C14: whatever the order in which the worker tasks finish, preprocess_stack
\* returns N frames with frame i the preprocessed input frame i, and
\* optical_flow returns N-1 entries with entry i the field computed from
\* the preprocessed frames i and i+1.
C14_GatherInIndexOrder ==
    LET n == plArr.shape[1]
    IN  /\ plProcessed # NoOut =>
                /\ plProcessed.shape[1] = n
                /\ \A i \in 0..(n - 1) :
                        Take(plProcessed, 1, i) = Preprocessed(plChan, i)
        /\ \A c \in DOMAIN plFlows :
                /\ plFlows[c].shape[1] = n - 1
                /\ \A i \in 0..(n - 2) :
                        Take(plFlows[c], 1, i)
                            = compute_flow_pair(Preprocessed(c, i),
                                                Preprocessed(c, i + 1),
                                                plArgs.flow_args)

\* A run on three frames, not all alike, has returned although the tasks of
\* both stages of channel 2 finished in reverse index order.
C14_Witness ==
    /\ plStage = "done"
    /\ plArr.shape[1] = 3
    /\ plArr.at[<<0, 1, 0, 0>>] # plArr.at[<<2, 1, 0, 0>>]
    /\ plOrder = << <<2, "pre", 3>>, <<2, "pre", 2>>, <<2, "pre", 1>>,
                    <<2, "flow", 2>>, <<2, "flow", 1>> >>
    /\ DOMAIN plFlows = {1, 2}

\* C19: while a motion task of a channel is on the pool, every preprocessing
\* task of that channel has finished.
C19_PreprocessingBeforeMotion ==
    \A key \in DOMAIN plTasks :
        key[2] = "flow" =>
            \A i \in 1..plArr.shape[1] :
                /\ <<key[1], "pre", i>> \in DOMAIN plTasks
                /\ plTasks[<<key[1], "pre", i>>].status = "done"

\* A motion task of channel 2 is running.
C19_Witness ==
    /\ plStage = "flow"
    /\ plChan = 2
    /\ \E key \in DOMAIN plTasks :
            key[1] = 2 /\ key[2] = "flow" /\ plTasks[key].status = "pending"

\* C20: once a preprocessing or motion task has raised in its worker and
\* its pool.map has ended, calculate_optical_flow has failed: it returned
\* nothing, no stage result of the failed stage exists and no flow file
\* was written.
C20_WorkerFailureFailsRun ==
    \A key \in DOMAIN plTasks :
        (plTasks[key].status = "failed"
            /\ (plStage # key[2] \/ plChan # key[1])) =>
                /\ plStage = "failed"
                /\ plRet = NoOut
                /\ key[2] = "pre" => plProcessed = NoOut
                /\ key[1] \notin DOMAIN plFlows
                /\ log = <<>>
                /\ \A f \in DOMAIN files : f \in {"s1/meta.json", "s1.npy"}

\* The run failed on a motion task of channel 2 that raised after channel 1
\* had been computed.
C20_Witness ==
    /\ plStage = "failed"
    /\ 1 \in DOMAIN plFlows
    /\ \E key \in DOMAIN plTasks :
            key[1] = 2 /\ key[2] = "flow" /\ plTasks[key].status = "failed"

\* C15: for a stack of a single frame optical_flow returns a field without
\* entries and calculate_optical_flow does not fail, unless a task raised.
C15_SingleFrameEmptyField ==
    (plArr # NoOut /\ plArr.shape[1] = 1
        /\ \A key \in DOMAIN plTasks : plTasks[key].status # "failed")
            => plStage # "failed"

\* Candidate i of a naming function, as a path under the root.
Candidate(pat, i) ==
    save_dir(pat.name, file_type(pat)) \o "/" \o pattern_fn(pat, i)

\* C27: get_unique_path returns the candidate of the smallest index whose
\* file does not exist, so an index freed by a deletion is handed out
\* before any higher index.
C27_SmallestFreeIndex ==
    (last # NoCall /\ since = "none") =>
        \E i \in 0..Cardinality(DOMAIN files) :
            /\ last.path = Candidate(last.pat, i)
            /\ Candidate(last.pat, i) \notin DOMAIN files
            /\ \A j \in 0..(i - 1) : Candidate(last.pat, j) \in DOMAIN files

\* Flow files 0 and 2 exist, file 1 is gone, and a call has returned the
\* path of index 1.
C27_Witness ==
    /\ last # NoCall
    /\ since = "none"
    /\ last.pat = FlowPat("s1")
    /\ "s1/flow/s1_f0.npy" \in DOMAIN files
    /\ "s1/flow/s1_f1.npy" \notin DOMAIN files
    /\ "s1/flow/s1_f2.npy" \in DOMAIN files
    /\ last.path = "s1/flow/s1_f1.npy"

\* C24: a calculate_optical_flow without arguments runs with the process and
\* flow configs held in self.params, which are the ones stored in types.json
\* for a stack type that was stored when the stack was constructed.
C24_StoredParamsUsed ==
    \A o \in Objs :
        objs[o].phase = "computed" =>
            /\ objs[o].used.process_args = objs[o].params.process
            /\ objs[o].used.flow_args = objs[o].params.flow

\* C25: the raw array and the metadata of every constructed stack are in the
\* stack's own directory, at <name>/<name>.npy and <name>/meta.json.
C25_FixedPathsUnderStackDir ==
    \A o \in Objs :
        objs[o].phase # "none" =>
            /\ (objs[o].name \o "/" \o objs[o].name \o ".npy") \in DOMAIN files
            /\ (objs[o].name \o "/meta.json") \in DOMAIN files

\* The source tags of the decimal flow form: f0, f1, ...
DecimalTags == {"f" \o ToString(n) : n \in 0..MaxFlowTag}

\* File names of distinct (ftag, index) pairs differ.
TrajNamesDistinct ==
    \A t1 \in DecimalTags, t2 \in DecimalTags :
        \A i1 \in 0..MaxLetterIndex, i2 \in 0..MaxLetterIndex :
            <<t1, i1>> # <<t2, i2>> =>
                pattern_fn(TrajPat("s1", t1), i1)
                    # pattern_fn(TrajPat("s1", t2), i2)

\* The number of save_trajectory calls for the name and source tag of entry
\* k among the entries before it.
TrajBefore(k) ==
    Cardinality({j \in 1..(k - 1) : log[j].pat = log[k].pat})

\* C28: trajectory file names of distinct (source tag, index) pairs differ,
\* and the letters of a saved trajectory count the trajectories saved before
\* it for the same name and source tag only: the first one of each source
\* tag gets "a".
C28_TrajectoryNameTracesTag ==
    /\ TrajNamesDistinct
    /\ \A k \in 1..Len(log) :
            log[k].op = "save_trajectory" =>
                /\ log[k].path
                        = log[k].name \o "/trajectory/" \o log[k].name \o "_t"
                            \o log[k].pat.tag \o number_to_tag(TrajBefore(k))
                            \o ".npy"
                /\ TrajBefore(k) = 0 =>
                        log[k].path
                            = log[k].name \o "/trajectory/" \o log[k].name
                                \o "_t" \o log[k].pat.tag \o "a.npy"

\* Two trajectories of s1 from f0 were saved, then the first one from f1.
C28_Witness ==
    /\ Len(log) >= 3
    /\ log[1].path = "s1/trajectory/s1_tf0a.npy"
    /\ log[2].path = "s1/trajectory/s1_tf0b.npy"
    /\ log[3].path = "s1/trajectory/s1_tf1a.npy"

\* The files in the directory the running get_unique_path call probes.
FilesProbed ==
    {q \in DOMAIN files :
        \E pat \in ProbePats, i \in 0..MaxProbeIndex :
            /\ pat.name = gpat.name
            /\ file_type(pat) = file_type(gpat)
            /\ q = Candidate(pat, i)}

\* C30: a get_unique_path call returns, and it makes at most one probe more
\* than there are files in the directory (probe number gi + 1 is the one at
\* index gi).
C30_ProbingTerminates ==
    /\ [](gpc # "idle" => gi <= Cardinality(FilesProbed))
    /\ (gpc = "probing") ~> (gpc = "returned")

\* A call has returned at its fourth probe from a directory of three files.
C30_Witness ==
    /\ gpc = "returned"
    /\ gi = 3
    /\ Cardinality(FilesProbed) = 3
    /\ last.path = Candidate(gpat, 3)

\* C21: a construction whose TIFF breaks the loading contract (page count not
\* divisible by the channel count, or a dtype other than the declared one)
\* raises and has written neither the registry, nor meta.json, nor the array.
C21_ContractViolationFailsFast ==
    \A k \in DOMAIN ldLog :
        (ldLog[k].op = "TiffStack" /\ ldLog[k].violated) =>
            /\ ldLog[k].outcome = "raised"
            /\ ldLog[k].wrote \cap {"types.json", "meta.json", "array"} = {}

\* C22: no storage call lets an exception out.
C22_StorageErrorsCaught ==
    \A k \in DOMAIN ldLog :
        ldLog[k].op \in {"save_arr", "save_type", "save_meta"} =>
            ldLog[k].outcome = "returned"

\* C23: with the root in place and types.json missing or malformed,
\* load_params raises: it returns no config, and the call (the constructor
\* included) writes nothing.
C23_UnreadableRegistryFails ==
    \A k \in DOMAIN ldLog :
        (/\ ldLog[k].op \in {"load_params", "TiffStack"}
         /\ ldLog[k].root0
         /\ ldLog[k].state0 # "ok") =>
            /\ IsError(ldLog[k].returned)
            /\ ldLog[k].outcome = "raised"
            /\ ldLog[k].wrote = {}

\* A load_params call and a construction have both met a malformed registry
\* that is still malformed, with what it held, afterwards.
C23_Witness ==
    /\ Len(ldLog) = 3
    /\ ldLog[1].outcome = "returned"
    /\ ldLog[2].op = "load_params"
    /\ ldLog[2].state0 = "malformed"
    /\ ldLog[3].op = "TiffStack"
    /\ ldLog[3].state0 = "malformed"
    /\ ldLog[3].types0 = ldLog[2].types0
    /\ "ta" \in DOMAIN ldLog[2].types0
    /\ typesState = "malformed"
    /\ types = ldLog[2].types0

\* C29: the config handed out for an unseen type is a copy of the compiled-in
\* defaults: whatever callers do to the configs they were handed, the three
\* module-level defaults keep their values, and every config resolved for an
\* unseen type holds the compiled-in defaults when it is returned.
C29_UnseenConfigIsDeepCopy ==
    /\ Deref(heap, DefaultRefs) = DefaultsSource
    /\ \A h \in DOMAIN handles :
            handles[h].unseen => handles[h].returned = DefaultsSource

\* C26: a command run with --tune on a root that has its inbox has echoed
\* the 'not implemented' notice, whatever the inbox holds.
C26_TuneRequestNoticed ==
    (cliIn # NoOut /\ cliIn.tune /\ cliIn.inbox) =>
        \E i \in DOMAIN cliOut.echoes : cliOut.echoes[i] = TuneNotice
====
